---- MODULE Spec2Model ----
(***************************************************************************)
(* A model of giaa: the rule expression evaluator (parser crate), the      *)
(* bindings built from a recognised artifact (artifact.rs, actuator.rs)    *)
(* and the actuation state machine Actuator::exec (actuator.rs), driven    *)
(* one recognised artifact at a time as Scanner::scan_now_page does.       *)
(***************************************************************************)
EXTENDS Integers, Sequences, FiniteSets, TLC

(***************************************************************************)
(* Bounds of the model.                                                    *)
(***************************************************************************)
\* Longest rule list explored.
MaxRules == 2
\* Fractional decimal digits a number keeps in the model: a Decimal d is
\* the integer d * 10^DecDigits.
DecDigits == 4

(***************************************************************************)
(* Program constants.                                                      *)
(***************************************************************************)
\* Parser::new(3, var_key)
Precision == 3

RECURSIVE Pow10(_)
Pow10(k) == IF k = 0 THEN 1 ELSE 10 * Pow10(k - 1)

DecUnit == Pow10(DecDigits)

\* The Decimal (and the f32) of the whole number i.
Dec(i) == i * DecUnit

(***************************************************************************)
(* metadata::ARTIFACT_INFO: the vocabulary loaded from artifact_info.yaml. *)
(* The words are named after their fields; one slot, one stat, one set     *)
(* with one artifact stand for the lists.                                  *)
(***************************************************************************)
ArtifactWord ==
    [star |-> "star", level |-> "level", equipped |-> "equipped",
     locked |-> "locked", marked |-> "marked",
     sanctifying_elixir |-> "sanctifying_elixir", main_stat |-> "main",
     sub_stats_count |-> "sub_stats_count", unactivated |-> "unactivated"]

ARTIFACT_INFO ==
    [slots |-> {"flower"},
     stats |-> {"crit"},
     set_names |-> {"gladiator"},
     artifact_names |-> {"nostalgia"},
     words |-> ArtifactWord]

\* format!("{}:{}", words.main_stat, stat)
MainStatKey(stat) == ARTIFACT_INFO.words.main_stat \o ":" \o stat

get_boolean_keys ==
    {ARTIFACT_INFO.words.equipped, ARTIFACT_INFO.words.marked,
     ARTIFACT_INFO.words.locked, ARTIFACT_INFO.words.sanctifying_elixir}
    \cup ARTIFACT_INFO.slots \cup ARTIFACT_INFO.stats
    \cup ARTIFACT_INFO.set_names \cup ARTIFACT_INFO.artifact_names

get_number_keys ==
    {ARTIFACT_INFO.words.star, ARTIFACT_INFO.words.level,
     ARTIFACT_INFO.words.sub_stats_count}
    \cup ARTIFACT_INFO.stats
    \cup {MainStatKey(stat) : stat \in ARTIFACT_INFO.stats}

(***************************************************************************)
(* parser::Expr: the expression tree.                                      *)
(***************************************************************************)
Number(n) == [kind |-> "Number", n |-> n]
Boolean(b) == [kind |-> "Boolean", b |-> b]
NumberVariable(name) == [kind |-> "NumberVariable", name |-> name]
BooleanVariable(name) == [kind |-> "BooleanVariable", name |-> name]
Binary(kind, left, right) == [kind |-> kind, left |-> left, right |-> right]
Not(expr) == [kind |-> "Not", expr |-> expr]

ArithmeticKinds == {"Plus", "Minus", "Times", "Divide"}
LogicalKinds == {"And", "Or"}
OrderingKinds ==
    {"LessThan", "GreaterThan", "LessThanEqual", "GreaterThanEqual"}
EqualityKinds == {"Equal", "NotEqual"}
BinaryKinds ==
    ArithmeticKinds \cup LogicalKinds \cup OrderingKinds \cup EqualityKinds

\* No call of a parser function is under study, and nothing was returned.
NoCall == [fn |-> "none"]
NoOutput == [tag |-> "None"]

\* A faulty variant of loop_var_keys: the operand of a negation is not
\* visited.
RECURSIVE loop_var_keys_SkipNot(_)
loop_var_keys_SkipNot(expr) ==
    CASE expr.kind = "NumberVariable" ->
            [boolean_keys |-> {}, number_keys |-> {expr.name}]
      [] expr.kind = "BooleanVariable" ->
            [boolean_keys |-> {expr.name}, number_keys |-> {}]
      [] expr.kind \in BinaryKinds ->
            LET left == loop_var_keys_SkipNot(expr.left)
                right == loop_var_keys_SkipNot(expr.right)
            IN  [boolean_keys |-> left.boolean_keys \cup right.boolean_keys,
                 number_keys |-> left.number_keys \cup right.number_keys]
      [] OTHER -> [boolean_keys |-> {}, number_keys |-> {}]

\* loop_var_keys: the variable names an expression reads, by type.
RECURSIVE loop_var_keys(_)
loop_var_keys(expr) ==
    CASE expr.kind = "NumberVariable" ->
            [boolean_keys |-> {}, number_keys |-> {expr.name}]
      [] expr.kind = "BooleanVariable" ->
            [boolean_keys |-> {expr.name}, number_keys |-> {}]
      [] expr.kind \in BinaryKinds ->
            LET left == loop_var_keys(expr.left)
                right == loop_var_keys(expr.right)
            IN  [boolean_keys |-> left.boolean_keys \cup right.boolean_keys,
                 number_keys |-> left.number_keys \cup right.number_keys]
      [] expr.kind = "Not" -> loop_var_keys(expr.expr)
      [] OTHER -> [boolean_keys |-> {}, number_keys |-> {}]

(***************************************************************************)
(* parser::parse: the peg grammar bool_parser.  An expression text is the  *)
(* sequence of its tokens (the optional whitespace `_` between them is     *)
(* dropped): a symbol, a word (rule world/variable) or a number literal    *)
(* given by its digits and the count of its fractional digits.             *)
(***************************************************************************)
Sym(s) == [type |-> "sym", v |-> s, digits |-> 0, scale |-> 0]
Word(w) == [type |-> "word", v |-> w, digits |-> 0, scale |-> 0]
Num(digits, scale) == [type |-> "num", v |-> "", digits |-> digits,
                       scale |-> scale]

\* The token at pos; past the end, a symbol no rule matches.
At(toks, pos) == IF pos \in 1..Len(toks) THEN toks[pos] ELSE Sym("")

IsSym(toks, pos, s) == At(toks, pos).type = "sym" /\ At(toks, pos).v = s

\* n.parse::<f64>() then Decimal::from_f64: the decimal the literal
\* writes, at DecDigits fractional digits.
from_f64(digits, scale) ==
    IF scale <= DecDigits THEN digits * Pow10(DecDigits - scale)
    ELSE digits \div Pow10(scale - DecDigits)

Matched(pos, val) == [ok |-> TRUE, pos |-> pos, val |-> val]
Failed == [ok |-> FALSE, pos |-> 0, val |-> Boolean(FALSE)]

\* A faulty variant of InfixLevels: && on a level of its own, tighter than
\* ||.
InfixLevels_AndTighter(g) ==
    IF g = "calculate"
    THEN << <<[sym |-> "+", kind |-> "Plus"], [sym |-> "-", kind |-> "Minus"]>>,
            <<[sym |-> "*", kind |-> "Times"],
              [sym |-> "/", kind |-> "Divide"]>>,
            <<>> >>
    ELSE << <<[sym |-> "||", kind |-> "Or"]>>,
            <<[sym |-> "&&", kind |-> "And"]>>,
            <<>>,
            <<>> >>

\* The infix rules of a precedence! block, level by level from the loosest,
\* each level in the order of its rules.  Every infix rule is written
\* x:(@) op y:@, left associative.
InfixLevels(g) ==
    IF g = "calculate"
    THEN << <<[sym |-> "+", kind |-> "Plus"], [sym |-> "-", kind |-> "Minus"]>>,
            <<[sym |-> "*", kind |-> "Times"],
              [sym |-> "/", kind |-> "Divide"]>>,
            <<>> >>
    ELSE << <<[sym |-> "&&", kind |-> "And"], [sym |-> "||", kind |-> "Or"]>>,
            <<>>,
            <<>> >>

\* The comparison rules of logical(), in the order they are tried.
ComparisonRules ==
    <<[sym |-> "==", kind |-> "Equal"], [sym |-> "!=", kind |-> "NotEqual"],
      [sym |-> "<", kind |-> "LessThan"], [sym |-> ">", kind |-> "GreaterThan"],
      [sym |-> "<=", kind |-> "LessThanEqual"],
      [sym |-> ">=", kind |-> "GreaterThanEqual"]>>

\* A faulty variant of InfixFrom: the right operand read from the rule's
\* own level, which groups a chain from the right.
RECURSIVE InfixFrom_RightAssociative(_, _)
InfixFrom_RightAssociative(g, prec) ==
    IF prec > Len(InfixLevels(g)) THEN <<>>
    ELSE [i \in DOMAIN InfixLevels(g)[prec] |->
             [sym |-> InfixLevels(g)[prec][i].sym,
              kind |-> InfixLevels(g)[prec][i].kind,
              right |-> prec]]
         \o InfixFrom_RightAssociative(g, prec + 1)

\* The infix rules of the levels min_prec and up, in the order the
\* generated parser tries them, each with the level of its right operand.
RECURSIVE InfixFrom(_, _)
InfixFrom(g, prec) ==
    IF prec > Len(InfixLevels(g)) THEN <<>>
    ELSE [i \in DOMAIN InfixLevels(g)[prec] |->
             [sym |-> InfixLevels(g)[prec][i].sym,
              kind |-> InfixLevels(g)[prec][i].kind,
              right |-> prec + 1]]
         \o InfixFrom(g, prec + 1)

\* The level at which the operand of a prefix rule "op" v:@ of level prec
\* is parsed.  The expansion of precedence! is code of the peg crate: the
\* operand is read either from the rule's own level, taking in the infix
\* operators of that level, or from the next level.
PrefixOperandLevel(mode, prec) ==
    IF mode = "SameLevel" THEN prec ELSE prec + 1

PrefixModes == {"SameLevel", "NextLevel"}

\* The element of a set of one element.  Only({F(x) : x \in {v}}) is F of
\* the value of v, v evaluated once.
Only(S) == CHOOSE y \in S : TRUE

\* Precedence climbing as precedence! generates it.  Levels are counted
\* from 1.  InfixParse: a prefix rule or an atom, then as many infix rules
\* of level min_prec and up as match.
RECURSIVE InfixParse(_, _, _, _, _)
RECURSIVE Climb(_, _, _, _, _, _)
RECURSIVE TryInfix(_, _, _, _, _, _, _)
RECURSIVE Paren(_, _, _, _)
RECURSIVE Prefix(_, _, _)
RECURSIVE PreRules(_, _, _, _)

\* The infix rules cands[i..] at pos, left being what was parsed so far:
\* the first whose operator and right operand match.
TryInfix(g, toks, mode, cands, i, pos, left) ==
    IF i > Len(cands) THEN Failed
    ELSE IF ~IsSym(toks, pos, cands[i].sym)
    THEN TryInfix(g, toks, mode, cands, i + 1, pos, left)
    ELSE Only({IF r.ok THEN Matched(r.pos, Binary(cands[i].kind, left, r.val))
                ELSE TryInfix(g, toks, mode, cands, i + 1, pos, left) :
        r \in {InfixParse(g, toks, mode, cands[i].right, pos + 1)}})

Climb(g, toks, mode, min_prec, pos, left) ==
    Only({IF step.ok THEN Climb(g, toks, mode, min_prec, step.pos, step.val)
           ELSE Matched(pos, left) :
        step \in {TryInfix(g, toks, mode, InfixFrom(g, min_prec), 1, pos, left)}})

\* x:calculate() op y:calculate(), one rule after the other; x is the
\* left operand as calculate() parsed it.
RECURSIVE TryComparison(_, _, _, _)
TryComparison(toks, mode, i, x) ==
    IF i > Len(ComparisonRules) \/ ~x.ok THEN Failed
    ELSE IF ~IsSym(toks, x.pos, ComparisonRules[i].sym)
    THEN TryComparison(toks, mode, i + 1, x)
    ELSE Only({IF y.ok
                THEN Matched(y.pos,
                             Binary(ComparisonRules[i].kind, x.val, y.val))
                ELSE TryComparison(toks, mode, i + 1, x) :
        y \in {InfixParse("calculate", toks, mode, 1, x.pos + 1)}})

\* "(" _ c:calculate() _ ")" and "(" _ e:logical() _ ")".
Paren(g, toks, mode, pos) ==
    IF ~IsSym(toks, pos, "(") THEN Failed
    ELSE Only({IF inner.ok /\ IsSym(toks, inner.pos, ")")
                THEN Matched(inner.pos + 1, inner.val)
                ELSE Failed :
        inner \in {InfixParse(g, toks, mode, 1, pos + 1)}})

\* "!" _ v:@
Prefix(toks, mode, pos) ==
    IF ~IsSym(toks, pos, "!") THEN Failed
    ELSE Only({IF v.ok THEN Matched(v.pos, Not(v.val)) ELSE Failed :
        v \in {InfixParse("logical", toks, mode, PrefixOperandLevel(mode, 1),
                         pos + 1)}})

\* The atoms of calculate(), in the order they are written.
CalculateAtom(toks, pos, paren) ==
    LET tok == At(toks, pos)
    IN  IF paren.ok THEN paren
        ELSE IF tok.type = "word"
        THEN Matched(pos + 1, NumberVariable(tok.v))
        ELSE IF tok.type = "num"
        THEN Matched(pos + 1, Number(from_f64(tok.digits, tok.scale)))
        ELSE IF IsSym(toks, pos, "-") /\ At(toks, pos + 1).type = "num"
        THEN Matched(pos + 2,
                     Number(-from_f64(At(toks, pos + 1).digits,
                                      At(toks, pos + 1).scale)))
        ELSE Failed

\* The prefix rule and the atoms of logical(), in the order they are
\* written: "!", the comparisons, boolean(), variable(), the parentheses.
LogicalAtom(g, toks, mode, pos, prefix) ==
    LET tok == At(toks, pos)
    IN  IF prefix.ok THEN prefix
        ELSE Only({IF comparison.ok THEN comparison
                    ELSE IF tok.type = "word" /\ tok.v \in {"true", "false"}
                    THEN Matched(pos + 1, Boolean(tok.v = "true"))
                    ELSE IF tok.type = "word"
                    THEN Matched(pos + 1, BooleanVariable(tok.v))
                    ELSE Paren(g, toks, mode, pos) :
        comparison \in {Only({TryComparison(toks, mode, 1, x) :
        x \in {InfixParse("calculate", toks, mode, 1, pos)}})}})

PreRules(g, toks, mode, pos) ==
    IF g = "calculate"
    THEN Only({CalculateAtom(toks, pos, paren) :
        paren \in {Paren(g, toks, mode, pos)}})
    ELSE Only({LogicalAtom(g, toks, mode, pos, prefix) :
        prefix \in {Prefix(toks, mode, pos)}})

InfixParse(g, toks, mode, min_prec, pos) ==
    Only({IF first.ok
           THEN Climb(g, toks, mode, min_prec, first.pos, first.val)
           ELSE Failed :
        first \in {PreRules(g, toks, mode, pos)}})

\* bool_parser::parse: the whole text is one logical().
parse(toks, mode) ==
    Only({IF e.ok /\ e.pos = Len(toks) + 1
           THEN [tag |-> "Expr", expr |-> e.val]
           ELSE [tag |-> "Err", msg |-> "parse error"] :
        e \in {InfixParse("logical", toks, mode, 1, 1)}})

(***************************************************************************)
(* parser::Parser::check_vars and Parser::parse.                           *)
(***************************************************************************)
Ok == [tag |-> "Ok"]

\* The variables of the tree checked against var_key: a variable itself,
\* and both sides of a binary node; every other node (a literal, and the
\* node Not) is passed without a look inside.
RECURSIVE check_vars(_, _)
check_vars(var_key, expr) ==
    IF expr.kind = "NumberVariable"
    THEN IF expr.name \in var_key.number_keys THEN Ok
         ELSE [tag |-> "Err",
               msg |-> "number variable not supported: " \o expr.name]
    ELSE IF expr.kind = "BooleanVariable"
    THEN IF expr.name \in var_key.boolean_keys THEN Ok
         ELSE [tag |-> "Err",
               msg |-> "boolean variable not supported: " \o expr.name]
    ELSE IF expr.kind \in BinaryKinds
    THEN LET left == check_vars(var_key, expr.left)
         IN  IF left.tag = "Err" THEN left
             ELSE check_vars(var_key, expr.right)
    ELSE Ok

\* Parser::parse: the grammar, then check_vars.
ParserParse(var_key, toks, mode) ==
    Only({IF e.tag = "Err" THEN e
           ELSE Only({IF checked.tag = "Err" THEN checked ELSE e :
        checked \in {check_vars(var_key, e.expr)}}) :
        e \in {parse(toks, mode)}})

\* The var_key main hands to Parser::new.
VarKey ==
    [boolean_keys |-> get_boolean_keys, number_keys |-> get_number_keys]

(***************************************************************************)
(* parser::Parser::exec: evaluation.  A result is a Number, a Boolean, an  *)
(* error value (Err) or a panic of the process (Panic).                    *)
(***************************************************************************)
ResNumber(n) == [tag |-> "Number", n |-> n]
ResBoolean(b) == [tag |-> "Boolean", b |-> b]
ResErr(msg) == [tag |-> "Err", msg |-> msg]
ResPanic(msg) == [tag |-> "Panic", msg |-> msg]

IsFailure(res) == res.tag \in {"Err", "Panic"}

\* Decimal::round_dp(dp): to dp fractional digits, a midpoint to the even
\* neighbour.
round_dp(n, dp) ==
    IF dp >= DecDigits THEN n
    ELSE LET q == Pow10(DecDigits - dp)
             lo == (n \div q) * q
             rem == n - lo
         IN  CASE 2 * rem < q -> lo
               [] 2 * rem > q -> lo + q
               [] OTHER -> IF (lo \div q) % 2 = 0 THEN lo ELSE lo + q

\* Decimal::from_f32 of a finite f32: the values of the model are exact
\* at DecDigits digits.
from_f32(n) == ResNumber(n)

Abs(n) == IF n < 0 THEN -n ELSE n

\* (a * b) \div DecUnit for a in 0..DecUnit-1 and b >= 0, one digit of a at
\* a time so that no intermediate value leaves the integers of the model:
\* the pair <<quotient, remainder>> of a * b by DecUnit.
RECURSIVE MulParts(_, _)
MulParts(a, b) ==
    IF a = 0 THEN <<0, 0>>
    ELSE LET rest == MulParts(a \div 10, b)
             low == 10 * rest[2] + (a % 10) * b
         IN  <<10 * rest[1] + (low \div DecUnit), low % DecUnit>>

\* The first k fractional digits of rem / b, for 0 <= rem < b.
RECURSIVE FracDigits(_, _, _)
FracDigits(rem, b, k) ==
    IF k = 0 THEN 0
    ELSE ((10 * rem) \div b) * Pow10(k - 1)
         + FracDigits((10 * rem) % b, b, k - 1)

\* The op closures handed to arithmetic_op.  A product or quotient keeps
\* DecDigits fractional digits, cut toward zero; Decimal's "/" panics on a
\* zero divisor.
ArithmeticFn(kind, l, r) ==
    CASE kind = "Plus" -> ResNumber(l + r)
      [] kind = "Minus" -> ResNumber(l - r)
      [] kind = "Times" ->
            LET a == Abs(l)
                b == Abs(r)
                m == (a \div DecUnit) * b + MulParts(a % DecUnit, b)[1]
            IN  ResNumber(IF (l < 0) # (r < 0) THEN -m ELSE m)
      [] kind = "Divide" ->
            IF r = 0 THEN ResPanic("Division by zero")
            ELSE LET a == Abs(l)
                     b == Abs(r)
                     m == (a \div b) * DecUnit
                          + FracDigits(a % b, b, DecDigits)
                 IN  ResNumber(IF (l < 0) # (r < 0) THEN -m ELSE m)

LogicalFn(kind, l, r) ==
    CASE kind = "And" -> l /\ r
      [] kind = "Or" -> l \/ r

ComparisonFn(kind, l, r) ==
    CASE kind = "LessThan" -> l < r
      [] kind = "GreaterThan" -> l > r
      [] kind = "LessThanEqual" -> l <= r
      [] kind = "GreaterThanEqual" -> l >= r
      [] kind = "Equal" -> l = r
      [] kind = "NotEqual" -> l # r

OpName(kind) ==
    CASE kind = "Plus" -> "+" [] kind = "Minus" -> "-"
      [] kind = "Times" -> "*" [] kind = "Divide" -> "/"
      [] kind = "And" -> "&&" [] kind = "Or" -> "||"
      [] kind = "LessThan" -> "<" [] kind = "GreaterThan" -> ">"
      [] kind = "LessThanEqual" -> "<=" [] kind = "GreaterThanEqual" -> ">="
      [] kind = "Equal" -> "==" [] kind = "NotEqual" -> "!="
      [] kind = "Not" -> "!"

err_msg(m) == ResErr("invalid operand type: " \o m)

\* Faulty variants of BinaryResult: a comparison that rounds its left
\* operand only, and an equality that answers false for operands of two
\* types.
BinaryResult_RoundLeft(precision, kind, l, r) ==
    CASE kind \in ArithmeticKinds ->
            IF l.tag = "Number" /\ r.tag = "Number"
            THEN ArithmeticFn(kind, l.n, r.n)
            ELSE err_msg(OpName(kind))
      [] kind \in LogicalKinds ->
            IF l.tag = "Boolean" /\ r.tag = "Boolean"
            THEN ResBoolean(LogicalFn(kind, l.b, r.b))
            ELSE err_msg(OpName(kind))
      [] kind \in OrderingKinds \cup EqualityKinds ->
            CASE l.tag = "Number" /\ r.tag = "Number" ->
                    ResBoolean(ComparisonFn(kind, round_dp(l.n, precision),
                                            r.n))
              [] l.tag = "Boolean" /\ r.tag = "Boolean"
                 /\ kind \in EqualityKinds ->
                    ResBoolean(ComparisonFn(kind, l.b, r.b))
              [] OTHER -> err_msg(OpName(kind))

BinaryResult_MixedUnequal(precision, kind, l, r) ==
    CASE kind \in ArithmeticKinds ->
            IF l.tag = "Number" /\ r.tag = "Number"
            THEN ArithmeticFn(kind, l.n, r.n)
            ELSE err_msg(OpName(kind))
      [] kind \in LogicalKinds ->
            IF l.tag = "Boolean" /\ r.tag = "Boolean"
            THEN ResBoolean(LogicalFn(kind, l.b, r.b))
            ELSE err_msg(OpName(kind))
      [] kind \in OrderingKinds ->
            IF l.tag = "Number" /\ r.tag = "Number"
            THEN ResBoolean(ComparisonFn(kind, round_dp(l.n, precision),
                                         round_dp(r.n, precision)))
            ELSE err_msg(OpName(kind))
      [] kind \in EqualityKinds ->
            CASE l.tag = "Number" /\ r.tag = "Number" ->
                    ResBoolean(ComparisonFn(kind, round_dp(l.n, precision),
                                            round_dp(r.n, precision)))
              [] l.tag = "Boolean" /\ r.tag = "Boolean" ->
                    ResBoolean(ComparisonFn(kind, l.b, r.b))
              [] OTHER -> ResBoolean(kind = "NotEqual")

\* The match on the two operand results, once both were evaluated without
\* failure; precision is Parser.precision.
BinaryResult(precision, kind, l, r) ==
    CASE kind \in ArithmeticKinds ->
            IF l.tag = "Number" /\ r.tag = "Number"
            THEN ArithmeticFn(kind, l.n, r.n)
            ELSE err_msg(OpName(kind))
      [] kind \in LogicalKinds ->
            IF l.tag = "Boolean" /\ r.tag = "Boolean"
            THEN ResBoolean(LogicalFn(kind, l.b, r.b))
            ELSE err_msg(OpName(kind))
      [] kind \in OrderingKinds ->
            IF l.tag = "Number" /\ r.tag = "Number"
            THEN ResBoolean(ComparisonFn(kind, round_dp(l.n, precision),
                                         round_dp(r.n, precision)))
            ELSE err_msg(OpName(kind))
      [] kind \in EqualityKinds ->
            CASE l.tag = "Number" /\ r.tag = "Number" ->
                    ResBoolean(ComparisonFn(kind, round_dp(l.n, precision),
                                            round_dp(r.n, precision)))
              [] l.tag = "Boolean" /\ r.tag = "Boolean" ->
                    ResBoolean(ComparisonFn(kind, l.b, r.b))
              [] OTHER -> err_msg(OpName(kind))

RECURSIVE ParserExec(_, _, _)
ParserExec(precision, expr, expr_var) ==
    CASE expr.kind = "Number" -> ResNumber(expr.n)
      [] expr.kind = "Boolean" -> ResBoolean(expr.b)
      [] expr.kind = "NumberVariable" ->
            IF expr.name \in DOMAIN expr_var.number_vars
            THEN from_f32(expr_var.number_vars[expr.name])
            ELSE ResErr("number variable not supported: " \o expr.name)
      [] expr.kind = "BooleanVariable" ->
            IF expr.name \in DOMAIN expr_var.boolean_vars
            THEN ResBoolean(expr_var.boolean_vars[expr.name])
            ELSE ResErr("boolean variable not supported: " \o expr.name)
      [] expr.kind = "Not" ->
            LET v == ParserExec(precision, expr.expr, expr_var)
            IN  CASE IsFailure(v) -> v
                  [] v.tag = "Boolean" -> ResBoolean(~v.b)
                  [] OTHER -> err_msg(OpName("Not"))
      [] expr.kind \in BinaryKinds ->
            LET l == ParserExec(precision, expr.left, expr_var)
            IN  IF IsFailure(l) THEN l
                ELSE LET r == ParserExec(precision, expr.right, expr_var)
                     IN  IF IsFailure(r) THEN r
                         ELSE BinaryResult(precision, expr.kind, l, r)

(***************************************************************************)
(* artifact::Artifact and the bindings built from it.                      *)
(***************************************************************************)
\* A recognised artifact read as (locked, marked) at enhancement level
\* `level`; the other attributes are those of one fixed card.
MakeArtifact(locked, marked, level) ==
    [name |-> "nostalgia", slot |-> "flower", main_stat |-> "crit",
     main_stat_value |-> Dec(7), stars |-> Dec(5),
     sanctifying_elixir |-> FALSE, level |-> level,
     marked |-> marked, locked |-> locked,
     sub_stats |-> <<>>, set_name |-> "gladiator", equipped |-> FALSE]

\* The value of the artifact variable while no artifact is being handled.
NoArtifact == MakeArtifact(FALSE, FALSE, Dec(0))

\* Artifact::get_boolean_maps: a later insert replaces an earlier one.
get_boolean_maps(a) ==
    (ARTIFACT_INFO.words.locked :> a.locked)
    @@ (ARTIFACT_INFO.words.marked :> a.marked)
    @@ (ARTIFACT_INFO.words.equipped :> a.equipped)
    @@ (ARTIFACT_INFO.words.sanctifying_elixir :> a.sanctifying_elixir)
    @@ (a.set_name :> TRUE) @@ (a.slot :> TRUE) @@ (a.name :> TRUE)

\* Artifact::get_number_maps.
get_number_maps(a) ==
    LET activated == {i \in DOMAIN a.sub_stats : ~a.sub_stats[i].unactivated}
        subs == [n \in {a.sub_stats[i].name : i \in DOMAIN a.sub_stats} |->
                    LET last == CHOOSE i \in DOMAIN a.sub_stats :
                                  /\ a.sub_stats[i].name = n
                                  /\ \A j \in DOMAIN a.sub_stats :
                                        a.sub_stats[j].name = n => j <= i
                    IN  a.sub_stats[last].value]
    IN  (ARTIFACT_INFO.words.sub_stats_count :> Dec(Cardinality(activated)))
        @@ subs
        @@ (MainStatKey(a.main_stat) :> a.main_stat_value)
        @@ (ARTIFACT_INFO.words.level :> a.level)
        @@ (ARTIFACT_INFO.words.star :> a.stars)

Restrict(f, keys) == [k \in (DOMAIN f) \cap keys |-> f[k]]

\* Actuator::generate_vars: defaults for every name, slot, set and stat,
\* overridden by the artifact's own values, then cut down to the keys the
\* expression reads.
generate_vars(a, expr_var_key) ==
    LET boolean_defaults ==
            [n \in ARTIFACT_INFO.artifact_names \cup ARTIFACT_INFO.slots
                   \cup ARTIFACT_INFO.set_names |-> FALSE]
        boolean_vars == get_boolean_maps(a) @@ boolean_defaults
        number_defaults ==
            [n \in ARTIFACT_INFO.stats
                   \cup {MainStatKey(stat) : stat \in ARTIFACT_INFO.stats}
                |-> Dec(0)]
        number_vars == get_number_maps(a) @@ number_defaults
    IN  [boolean_vars |-> Restrict(boolean_vars, expr_var_key.boolean_keys),
         number_vars |-> Restrict(number_vars, expr_var_key.number_keys)]

(***************************************************************************)
(* Rules.                                                                  *)
(***************************************************************************)
RuleAction ==
    {"ClickLock", "ClickMark", "Lock", "OnlyLock", "LockAndMark",
     "UnLockAndMark"}

\* The expressions of the rule files explored, as the grammar parses them
\* and Parser::check_vars accepts them:
\*   level == 0      locked      !marked      crit
ExprLevelZero == Binary("Equal", NumberVariable("level"), Number(Dec(0)))
ExprLocked == BooleanVariable("locked")
ExprNotMarked == Not(BooleanVariable("marked"))
ExprCrit == BooleanVariable("crit")

RuleExpressions == {ExprLevelZero, ExprLocked, ExprNotMarked, ExprCrit}

\* RuleExpr::from_rule: the rule with its parsed expression and the keys
\* the expression reads.
from_rule(action, expr) ==
    [action |-> action, expr |-> expr, expr_var_key |-> loop_var_keys(expr)]

RuleExprs == {from_rule(a, e) : a \in RuleAction, e \in RuleExpressions}

RuleLists == UNION {[1..n -> RuleExprs] : n \in 0..MaxRules}

\* Rule expressions as the rules file writes them.
TextLevelZero == <<Word("level"), Sym("=="), Num(0, 0)>>
TextLocked == <<Word("locked")>>
TextNotMarked == <<Sym("!"), Word("marked")>>
TextCrit == <<Word("crit")>>
TextNotUnknown == <<Sym("!"), Word("foo")>>
TextUnknown == <<Word("foo")>>
TextUnknownNumber == <<Word("foo"), Sym(">"), Num(10, 0)>>
TextUnfinished == <<Word("locked"), Sym("&&")>>

RuleTexts ==
    {TextLevelZero, TextLocked, TextNotMarked, TextCrit, TextNotUnknown,
     TextUnknown, TextUnknownNumber, TextUnfinished}

\* The actions of the rules files explored.
RawActions == {"Lock", "ClickMark"}

\* metadata::Rule, without its description.
RawRules == [expression : RuleTexts, action : RawActions]

RawRuleLists == UNION {[1..n -> RawRules] : n \in 0..MaxRules}

\* RuleExpr::from_rule on a rule of the rules file: Parser::parse, whose
\* error is wrapped with the rule's expression, then get_var_keys.
RuleExprFromRule(rule, mode) ==
    Only({IF e.tag = "Err"
           THEN [tag |-> "Err", msg |-> e.msg,
                 expression |-> rule.expression]
           ELSE [tag |-> "Ok", rule_expr |-> from_rule(rule.action, e.expr)] :
        e \in {ParserParse(VarKey, rule.expression, mode)}})

\* A faulty variant of from_rules: a rule that fails to compile is left
\* out and the others are kept.
RECURSIVE from_rules_SkipInvalid(_, _)
from_rules_SkipInvalid(rs, mode) ==
    IF rs = <<>> THEN [tag |-> "Ok", rule_exprs |-> <<>>]
    ELSE Only({Only({IF first.tag = "Err" THEN rest
                       ELSE [tag |-> "Ok",
                             rule_exprs |->
                                 <<first.rule_expr>> \o rest.rule_exprs] :
        rest \in {from_rules_SkipInvalid(Tail(rs), mode)}}) :
        first \in {RuleExprFromRule(Head(rs), mode)}})

\* RuleExpr::from_rules: map from_rule over the rules and collect into a
\* Result: the first error, or every compiled rule in order.
RECURSIVE from_rules(_, _)
from_rules(rs, mode) ==
    IF rs = <<>> THEN [tag |-> "Ok", rule_exprs |-> <<>>]
    ELSE Only({IF first.tag = "Err" THEN first
                ELSE Only({IF rest.tag = "Err" THEN rest
                            ELSE [tag |-> "Ok",
                                  rule_exprs |->
                                      <<first.rule_expr>>
                                      \o rest.rule_exprs] :
        rest \in {from_rules(Tail(rs), mode)}}) :
        first \in {RuleExprFromRule(Head(rs), mode)}})

\* Enhancement levels of the artifacts explored.
Levels == {Dec(0), Dec(20)}

(***************************************************************************)
(* Actuator: the decision state machine.                                   *)
(***************************************************************************)
VARIABLES
    rule_exprs,       \* Actuator.rule_exprs: the compiled rules, in order
    artifact,         \* the artifact exec mutates
    before_artifact,  \* exec's clone of the artifact as it was recognised
    rule_idx,         \* position of exec's loop over rule_exprs
    pc,               \* idle | rules | returned | stopped | aborted, and
                      \* in a scan: scan | cell | page_end | move_rows |
                      \* move_row | adjust | ended
    result,           \* what exec returned: an ActuatorResult, Err, or None
    clicks,           \* the clicks exec handed to Window::click, in order
    hit_log,          \* the rules logged as hit, by position
    trail,            \* history: (locked, marked) on entry and after each rule
    rules,            \* the rules of the rules file handed to from_rules
    prefix_operand,   \* how the generated parser reads a prefix operand
    input,            \* the call under study: a function and its arguments
    output,           \* what that call returned
    args,             \* Args: strict_mode
    list,             \* the artifact list of the game: rows, cards in the last
    scanner,          \* Scanner: row_index, page_scroll_count,
                      \* actuator_results
    frame,            \* locals of scan_all_page, scan_now_page, move_rows,
                      \* move_row and adjust_row_position
    observed          \* history: what the scan has been seen to do

vars ==
    <<rule_exprs, artifact, before_artifact, rule_idx, pc, result, clicks,
      hit_log, trail, rules, prefix_operand, input, output, args, list,
      scanner, frame, observed>>

\* The scanner and the list it walks.
scan_vars == <<args, list, scanner, frame, observed>>

\* What the actuator leaves alone: the rules file, the parser generator's
\* reading, the call under study and the scanner.
front == <<rules, prefix_operand, input, output, scan_vars>>

\* The outcomes exec can return.
ActuatorResult == {"LockAndMark", "OnlyLock", "UnlockAndUnmark"}

\* Scanner::new: the counters at zero, no outcome kept.  The vector
\* actuator_results is only pushed to and counted by kind: it is kept as
\* the number of outcomes of each kind.  scroll_count, which only the
\* estimate of the rows of the list reads, is left to the history of the
\* scrolls: the rows of the list are read off `list`.
NewScanner ==
    [row_index |-> 0, page_scroll_count |-> 0,
     actuator_results |-> [kind \in ActuatorResult |-> 0]]

\* Vec::push on actuator_results, and its length.
Push(results, kind) == [results EXCEPT ![kind] = @ + 1]

Pushed(results) ==
    results["LockAndMark"] + results["OnlyLock"] + results["UnlockAndUnmark"]

NoFrame ==
    [page_rows |-> 0, row |-> 0, col |-> 0, rows_left |-> 0,
     changed |-> FALSE, attempt |-> 0]

\* The navigation call last entered: its outcome, the single-unit scrolls
\* it made, the readings of the indicator it took, the last of them and
\* whether one before the last was above the threshold; for a bulk move,
\* the rows asked for and the units scrolled before the adjustment.
NoNavigation ==
    [fn |-> "none", outcome |-> "None", units |-> 0, reads |-> 0,
     shifted_before |-> FALSE, last |-> 0, rows |-> 0, bulk |-> 0]

\* No scan in progress.
\* What the scan has been seen to do: the cells clicked, the cards handed
\* to the actuator, the rows moved one at a time, what its last step met
\* ("cancel", "no_card", "eval_error", the message of an error of
\* identify, ... or "other"), and the navigation call last entered.
NothingObserved ==
    [cells |-> 0, handed |-> 0, single_rows |-> 0, single_units |-> 0, event |-> "other",
     nav |-> NoNavigation]

ScanNotStarted ==
    /\ args = [strict_mode |-> FALSE]
    /\ list = [rows |-> 0, last |-> 0]
    /\ scanner = NewScanner
    /\ frame = NoFrame
    /\ observed = NothingObserved

State(a) == [locked |-> a.locked, marked |-> a.marked]

\* The arms of the match on rule.action of a rule that was hit.
ActClickLock_NoCouple(a) == [a EXCEPT !.locked = ~a.locked]

ActClickLock(a) ==
    LET b == [a EXCEPT !.locked = ~a.locked]
    IN  IF b.marked /\ ~b.locked THEN [b EXCEPT !.marked = FALSE] ELSE b

ActClickMark_NoCouple(a) == [a EXCEPT !.marked = ~a.marked]

ActClickMark_Sets(a) ==
    LET b == [a EXCEPT !.marked = TRUE]
    IN  IF ~b.locked /\ b.marked THEN [b EXCEPT !.locked = TRUE] ELSE b

ActClickMark(a) ==
    LET b == [a EXCEPT !.marked = ~a.marked]
    IN  IF ~b.locked /\ b.marked THEN [b EXCEPT !.locked = TRUE] ELSE b

ActLock_ClearsMark(a) == [a EXCEPT !.locked = TRUE, !.marked = FALSE]

ActLock(a) == [a EXCEPT !.locked = TRUE]

ActOnlyLock_KeepsMark(a) == [a EXCEPT !.locked = TRUE]

ActOnlyLock(a) == [a EXCEPT !.locked = TRUE, !.marked = FALSE]

ActLockAndMark(a) == [a EXCEPT !.locked = TRUE, !.marked = TRUE]

ActUnLockAndMark(a) == [a EXCEPT !.locked = FALSE, !.marked = FALSE]

ApplyAction(action, a) ==
    CASE action = "ClickLock" -> ActClickLock(a)
      [] action = "ClickMark" -> ActClickMark(a)
      [] action = "Lock" -> ActLock(a)
      [] action = "OnlyLock" -> ActOnlyLock(a)
      [] action = "LockAndMark" -> ActLockAndMark(a)
      [] action = "UnLockAndMark" -> ActUnLockAndMark(a)

\* A click on a control, moved down when the card shows "sanctifying
\* elixir" (sanctifying_elixir_offset).
click_lock(a) == [control |-> "artifact_lock", offset |-> a.sanctifying_elixir]
click_mark(a) == [control |-> "artifact_mark", offset |-> a.sanctifying_elixir]

\* The clicks each handler hands to the window, given the artifact as it
\* was before the rules ran.
handle_only_lock_WrongControl(a) ==
    IF a.locked
    THEN IF a.marked THEN <<click_lock(a)>> ELSE <<>>
    ELSE <<click_lock(a)>>

handle_only_lock(a) ==
    IF a.locked
    THEN IF a.marked THEN <<click_mark(a)>> ELSE <<>>
    ELSE <<click_lock(a)>>

handle_lock_and_mark_BothControls(a) ==
    (IF ~a.locked THEN <<click_lock(a)>> ELSE <<>>)
    \o (IF ~a.marked THEN <<click_mark(a)>> ELSE <<>>)

handle_lock_and_mark(a) ==
    IF ~a.marked THEN <<click_mark(a)>> ELSE <<>>

\* A faulty variant of handle_un_lock_and_mark: a marked card is unmarked
\* and left locked.
handle_un_lock_and_mark_UnmarkOnly(a) ==
    IF a.marked THEN <<click_mark(a)>>
    ELSE IF a.locked THEN <<click_lock(a)>> ELSE <<>>

handle_un_lock_and_mark(a) ==
    IF a.locked THEN <<click_lock(a)>> ELSE <<>>

RuleResult_Stale(rule_expr, a) ==
    ParserExec(Precision, rule_expr.expr,
               generate_vars(before_artifact, rule_expr.expr_var_key))

\* The evaluation of one rule against the bindings of the artifact as it
\* is now.
RuleResult(rule_expr, a) ==
    ParserExec(Precision, rule_expr.expr, generate_vars(a, rule_expr.expr_var_key))

Init ==
    /\ rule_exprs \in RuleLists
    /\ artifact = NoArtifact
    /\ before_artifact = NoArtifact
    /\ rule_idx = 1
    /\ pc = "idle"
    /\ result = "None"
    /\ clicks = <<>>
    /\ hit_log = <<>>
    /\ trail = <<>>
    /\ rules = <<>>
    /\ prefix_operand = "SameLevel"
    /\ input = NoCall
    /\ output = NoOutput
    /\ ScanNotStarted

\* Actuator::exec entered with artifact a: the clone, then the loop.
ExecEntered(a) ==
    /\ artifact' = a
    /\ before_artifact' = a
    /\ rule_idx' = 1
    /\ pc' = "rules"
    /\ result' = "None"
    /\ clicks' = <<>>
    /\ hit_log' = <<>>
    /\ trail' = <<State(a)>>

EnterExec(a) ==
    /\ ExecEntered(a)
    /\ UNCHANGED <<rule_exprs, front>>

\* Identifier::identify reads the card; scan_now_page hands a recognised
\* artifact to Actuator::exec, which clones it first.  A card read as
\* marked but not locked is an identification error: logged, no exec.
Identify(locked, marked, level) ==
    /\ pc = "idle"
    /\ IF marked /\ ~locked
       THEN UNCHANGED vars
       ELSE EnterExec(MakeArtifact(locked, marked, level))

\* A faulty variant of ExecRule: the control of a rule that hits is
\* clicked at once, before the rules after it are evaluated.
ExecRule_ClickOnHit ==
    /\ pc = "rules"
    /\ rule_idx <= Len(rule_exprs)
    /\ LET rule_expr == rule_exprs[rule_idx]
           res == RuleResult(rule_expr, artifact)
           hit == res.tag = "Boolean" /\ res.b
       IN  IF IsFailure(res)
           THEN /\ pc' = IF res.tag = "Panic" THEN "aborted" ELSE "returned"
                /\ result' = res.tag
                /\ UNCHANGED <<artifact, rule_idx, hit_log, trail, clicks>>
           ELSE /\ artifact' = IF hit THEN ApplyAction(rule_expr.action, artifact)
                               ELSE artifact
                /\ hit_log' = IF hit THEN Append(hit_log, rule_idx) ELSE hit_log
                /\ rule_idx' = rule_idx + 1
                /\ trail' = Append(trail, State(artifact'))
                /\ clicks' = IF State(artifact') = State(artifact) THEN clicks
                             ELSE IF artifact'.locked = artifact.locked
                             THEN Append(clicks, click_mark(artifact))
                             ELSE Append(clicks, click_lock(artifact))
                /\ UNCHANGED <<pc, result>>
    /\ UNCHANGED <<rule_exprs, before_artifact, front>>

\* One iteration of exec's loop over the rules.
ExecRule ==
    /\ pc = "rules"
    /\ rule_idx <= Len(rule_exprs)
    /\ LET rule_expr == rule_exprs[rule_idx]
           res == RuleResult(rule_expr, artifact)
           hit == res.tag = "Boolean" /\ res.b
       IN  IF IsFailure(res)
           THEN /\ pc' = IF res.tag = "Panic" THEN "aborted" ELSE "returned"
                /\ result' = res.tag
                /\ UNCHANGED <<artifact, rule_idx, hit_log, trail>>
           ELSE /\ artifact' = IF hit THEN ApplyAction(rule_expr.action, artifact)
                               ELSE artifact
                /\ hit_log' = IF hit THEN Append(hit_log, rule_idx) ELSE hit_log
                /\ rule_idx' = rule_idx + 1
                /\ trail' = Append(trail, State(artifact'))
                /\ UNCHANGED <<pc, result>>
    /\ UNCHANGED <<rule_exprs, before_artifact, clicks, front>>

\* Faulty variants of ExecClicks: the difference taken against the state
\* before the last rule, and one difference per rule.
StepClicks(a, before) ==
    IF a.locked
    THEN IF a.marked THEN handle_lock_and_mark(before)
         ELSE handle_only_lock(before)
    ELSE handle_un_lock_and_mark(before)

ExecClicks_FromPrevious(a, before) ==
    StepClicks(a, IF Len(trail) >= 2
                  THEN [before EXCEPT !.locked = trail[Len(trail) - 1].locked,
                                      !.marked = trail[Len(trail) - 1].marked]
                  ELSE before)

RECURSIVE ReplayClicks(_, _)
ReplayClicks(before, k) ==
    IF k = 0 THEN <<>>
    ELSE ReplayClicks(before, k - 1)
         \o StepClicks([before EXCEPT !.locked = trail[k + 1].locked,
                                      !.marked = trail[k + 1].marked],
                       [before EXCEPT !.locked = trail[k].locked,
                                      !.marked = trail[k].marked])

ExecClicks_Replay(a, before) == ReplayClicks(before, Len(trail) - 1)

\* The clicks that take the card from its recognised state to the
\* simulated one.
ExecClicks(a, before) ==
    IF a.locked
    THEN IF a.marked THEN handle_lock_and_mark(before)
         ELSE handle_only_lock(before)
    ELSE handle_un_lock_and_mark(before)

\* A faulty variant of ExecOutcome: the tag of the state the card was
\* recognised in.
ExecOutcome_Recognised(a) ==
    IF before_artifact.locked
    THEN IF before_artifact.marked THEN "LockAndMark" ELSE "OnlyLock"
    ELSE "UnlockAndUnmark"

\* The ActuatorResult of the simulated state.
ExecOutcome(a) ==
    IF a.locked
    THEN IF a.marked THEN "LockAndMark" ELSE "OnlyLock"
    ELSE "UnlockAndUnmark"

\* The arm (false, true) of exec's match on the simulated state.
FinalUnreachable(a) == ~a.locked /\ a.marked

\* After the loop: click, and return the outcome; a click the window
\* refuses makes exec return the error.  Not locked but marked is
\* unreachable!(): a panic.
ExecFinish ==
    /\ pc = "rules"
    /\ rule_idx > Len(rule_exprs)
    /\ IF FinalUnreachable(artifact)
       THEN /\ pc' = "aborted"
            /\ result' = "Panic"
            /\ UNCHANGED clicks
       ELSE LET cs == ExecClicks(artifact, before_artifact)
            IN  /\ clicks' = clicks \o cs
                /\ \E ok \in (IF cs = <<>> THEN {TRUE} ELSE BOOLEAN) :
                      result' = IF ok THEN ExecOutcome(artifact) ELSE "Err"
                /\ pc' = "returned"
    /\ UNCHANGED <<rule_exprs, artifact, before_artifact, rule_idx, hit_log,
                   trail, front>>

\* scan_now_page after exec: an error ends the scan, an outcome is kept
\* and the next card is handled; the artifact is dropped.
ExecReturn ==
    /\ pc = "returned"
    /\ pc' = IF result = "Err" THEN "stopped" ELSE "idle"
    /\ artifact' = NoArtifact
    /\ before_artifact' = NoArtifact
    /\ rule_idx' = 1
    /\ result' = "None"
    /\ clicks' = <<>>
    /\ hit_log' = <<>>
    /\ trail' = <<>>
    /\ UNCHANGED <<rule_exprs, front>>

Next ==
    \/ \E locked \in BOOLEAN, marked \in BOOLEAN, level \in Levels :
          Identify(locked, marked, level)
    \/ ExecRule
    \/ ExecFinish
    \/ ExecReturn

Spec == Init /\ [][Next]_vars

(***************************************************************************)
(* Actuator::exec as the public function it is: called on an artifact in   *)
(* any state, the not held but flagged one included, which scan_now_page   *)
(* never hands over.                                                       *)
(***************************************************************************)
CallExec(locked, marked, level) ==
    /\ pc = "idle"
    /\ EnterExec(MakeArtifact(locked, marked, level))

NextExec ==
    \/ \E locked \in BOOLEAN, marked \in BOOLEAN, level \in Levels :
          CallExec(locked, marked, level)
    \/ ExecRule
    \/ ExecFinish
    \/ ExecReturn

SpecExec == Init /\ [][NextExec]_vars

(***************************************************************************)
(* The program from its start: main loads the rules file and compiles it,  *)
(* then the scan runs the actuator on the compiled rules.                  *)
(***************************************************************************)
InitLoad ==
    /\ rules \in RawRuleLists
    /\ prefix_operand \in PrefixModes
    /\ rule_exprs = <<>>
    /\ artifact = NoArtifact
    /\ before_artifact = NoArtifact
    /\ rule_idx = 1
    /\ pc = "load"
    /\ result = "None"
    /\ clicks = <<>>
    /\ hit_log = <<>>
    /\ trail = <<>>
    /\ input = NoCall
    /\ output = NoOutput
    /\ ScanNotStarted

\* main: an empty rules file and a rule that does not compile end the
\* program; otherwise the compiled rules go to Actuator::new.
LoadRules ==
    /\ pc = "load"
    /\ \E compiled \in {from_rules(rules, prefix_operand)} :
          IF rules = <<>> \/ compiled.tag = "Err"
          THEN /\ pc' = "load_failed"
               /\ UNCHANGED rule_exprs
          ELSE /\ pc' = "idle"
               /\ rule_exprs' = compiled.rule_exprs
    /\ UNCHANGED <<artifact, before_artifact, rule_idx, result, clicks,
                   hit_log, trail, front>>

NextLoad ==
    \/ LoadRules
    \/ \E locked \in BOOLEAN, marked \in BOOLEAN, level \in Levels :
          Identify(locked, marked, level)
    \/ ExecRule
    \/ ExecFinish
    \/ ExecReturn

SpecLoad == InitLoad /\ [][NextLoad]_vars

(***************************************************************************)
(* The functions of the parser crate called on their own, as the crate's   *)
(* tests call them: parse on an expression text, Parser::exec on an        *)
(* expression tree with a precision and bindings.                          *)
(***************************************************************************)
\* Operands of the chains explored: at most MaxOperands in a chain.
MaxOperands == 4

\* const PRECISION: u32 = 2 of the parser's tests.
TestPrecision == 2

OperandNames == <<"a", "b", "c", "d", "e", "f">>

OperandName(i) == OperandNames[((i - 1) % Len(OperandNames)) + 1]

\* The i-th operand of a chain, bare or under "!".
OperandTexts(i) ==
    {<<Word(OperandName(i))>>, <<Sym("!"), Word(OperandName(i))>>}

\* The unparenthesised chains of k operands joined by && and ||.
RECURSIVE Chains(_)
Chains(k) ==
    IF k = 1 THEN OperandTexts(1)
    ELSE {c \o <<Sym(op)>> \o o :
             c \in Chains(k - 1), op \in {"&&", "||"}, o \in OperandTexts(k)}

ChainTexts == UNION {Chains(k) : k \in 1..MaxOperands}

ParseCalls == [fn : {"parse"}, text : ChainTexts]

\* Number literals around the rounding steps of two and three digits.
SampleNumbers ==
    {Dec(0), from_f64(333, 2), from_f64(3334, 3), from_f64(3335, 3),
     from_f64(3345, 3), from_f64(33335, 4), -from_f64(3335, 3)}

TenThirds == Binary("Divide", Number(Dec(10)), Number(Dec(3)))

ExecOperands ==
    {Number(n) : n \in SampleNumbers}
    \cup {Boolean(TRUE), Boolean(FALSE), TenThirds,
          NumberVariable("level"), BooleanVariable("locked"),
          BooleanVariable("marked")}

ExecExprs ==
    {Binary(kind, l, r) :
        kind \in BinaryKinds, l \in ExecOperands, r \in ExecOperands}
    \cup {Not(o) : o \in ExecOperands}

\* The bindings of the calls explored: marked has none.
SampleVars ==
    [boolean_vars |-> ("locked" :> TRUE), number_vars |-> ("level" :> Dec(20))]

ExecCalls ==
    [fn : {"exec"}, precision : {TestPrecision, Precision},
     expr : ExecExprs, expr_var : {SampleVars}]

InitCall ==
    /\ input \in ParseCalls \cup ExecCalls
    /\ prefix_operand \in
          IF input.fn = "parse" THEN PrefixModes ELSE {"SameLevel"}
    /\ output = NoOutput
    /\ rules = <<>>
    /\ rule_exprs = <<>>
    /\ artifact = NoArtifact
    /\ before_artifact = NoArtifact
    /\ rule_idx = 1
    /\ pc = "call"
    /\ result = "None"
    /\ clicks = <<>>
    /\ hit_log = <<>>
    /\ trail = <<>>
    /\ ScanNotStarted

\* What every call leaves alone.
back ==
    <<rule_exprs, artifact, before_artifact, rule_idx, result, clicks,
      hit_log, trail, rules, prefix_operand, input, scan_vars>>

CallParse ==
    /\ pc = "call"
    /\ input.fn = "parse"
    /\ output' = parse(input.text, prefix_operand)
    /\ pc' = "called"
    /\ UNCHANGED back

CallParserExec ==
    /\ pc = "call"
    /\ input.fn = "exec"
    /\ output' = ParserExec(input.precision, input.expr, input.expr_var)
    /\ pc' = "called"
    /\ UNCHANGED back

NextCall ==
    \/ CallParse
    \/ CallParserExec

SpecCall == InitCall /\ [][NextCall]_vars

(***************************************************************************)
(* Expr::get_var_keys and ArtifactIdentify::filter, called on their own.   *)
(***************************************************************************)
\* The keys of all the rules of a list, as filter collects them.
all_keys(rule_list) ==
    UNION {Only({var_keys.boolean_keys \cup var_keys.number_keys :
                 var_keys \in {loop_var_keys(rule_list[i].expr)}}) :
           i \in DOMAIN rule_list}

\* A faulty variant of filter: sub_stats is enabled by the keys of the
\* stats only.
filter_NoForce(rule_list) ==
    LET keys == all_keys(rule_list)
        stat_keys == {MainStatKey(stat) : stat \in ARTIFACT_INFO.stats}
    IN  [name |-> ARTIFACT_INFO.artifact_names \cap keys # {},
         slot |-> ARTIFACT_INFO.slots \cap keys # {},
         stars |-> ARTIFACT_INFO.words.star \in keys,
         level |-> ARTIFACT_INFO.words.level \in keys,
         set_name |-> ARTIFACT_INFO.set_names \cap keys # {},
         sub_stats_count |-> ARTIFACT_INFO.words.sub_stats_count \in keys,
         main_stat |-> stat_keys \cap keys # {},
         main_stat_value |-> stat_keys \cap keys # {},
         sub_stats |-> ARTIFACT_INFO.stats \cap keys # {},
         equipped |-> ARTIFACT_INFO.words.equipped \in keys]

\* ArtifactIdentify::filter: the attributes the rules read, and sub_stats
\* with set_name and with sub_stats_count, which are read below the
\* sub-stats on the card.
filter(rule_list) ==
    LET keys == all_keys(rule_list)
        stat_keys == {MainStatKey(stat) : stat \in ARTIFACT_INFO.stats}
        set_name == ARTIFACT_INFO.set_names \cap keys # {}
        sub_stats_count == ARTIFACT_INFO.words.sub_stats_count \in keys
    IN  [name |-> ARTIFACT_INFO.artifact_names \cap keys # {},
         slot |-> ARTIFACT_INFO.slots \cap keys # {},
         stars |-> ARTIFACT_INFO.words.star \in keys,
         level |-> ARTIFACT_INFO.words.level \in keys,
         set_name |-> set_name,
         sub_stats_count |-> sub_stats_count,
         main_stat |-> stat_keys \cap keys # {},
         main_stat_value |-> stat_keys \cap keys # {},
         sub_stats |-> \/ ARTIFACT_INFO.stats \cap keys # {}
                       \/ set_name
                       \/ sub_stats_count,
         equipped |-> ARTIFACT_INFO.words.equipped \in keys]

\* The expressions get_var_keys is called on: variables, one name of
\* them read both as a number and as a boolean, and a constant, under
\* every operator, then negated and joined once more.  They need not be
\* well typed.
KeyLeaves ==
    {NumberVariable("level"), NumberVariable("crit"),
     BooleanVariable("locked"), BooleanVariable("crit"),
     Boolean(TRUE)}

Joined(kinds, operands) ==
    {Binary(kind, left, right) :
        kind \in kinds, left \in operands, right \in operands}

Negated(operands) == {Not(expr) : expr \in operands}

KeyExprsShallow ==
    KeyLeaves \cup Negated(KeyLeaves) \cup Joined(BinaryKinds, KeyLeaves)

KeyExprs ==
    KeyExprsShallow \cup Negated(KeyExprsShallow)
    \cup Joined({"And"}, KeyExprsShallow)

\* The rule lists filter is called on: up to MaxRules rules, each reading
\* one attribute, or a set name and the lock under a negation.
FilterExprs ==
    {BooleanVariable(key) :
        key \in ARTIFACT_INFO.artifact_names \cup ARTIFACT_INFO.slots
                \cup ARTIFACT_INFO.set_names
                \cup {ARTIFACT_INFO.words.equipped,
                      ARTIFACT_INFO.words.locked}}
    \cup {NumberVariable(key) :
        key \in ARTIFACT_INFO.stats
                \cup {MainStatKey(stat) : stat \in ARTIFACT_INFO.stats}
                \cup {ARTIFACT_INFO.words.star, ARTIFACT_INFO.words.level,
                      ARTIFACT_INFO.words.sub_stats_count}}
    \cup {Not(Binary("And", BooleanVariable(set_name),
                     Not(BooleanVariable(ARTIFACT_INFO.words.locked)))) :
        set_name \in ARTIFACT_INFO.set_names}

FilterRuleLists ==
    UNION {[1..n -> {from_rule("Lock", expr) : expr \in FilterExprs}] :
           n \in 0..MaxRules}

KeyCalls ==
    [fn : {"get_var_keys"}, expr : KeyExprs]
    \cup [fn : {"filter"}, rule_exprs : FilterRuleLists]

InitKeys ==
    /\ input \in KeyCalls
    /\ prefix_operand = "SameLevel"
    /\ output = NoOutput
    /\ rules = <<>>
    /\ rule_exprs = <<>>
    /\ artifact = NoArtifact
    /\ before_artifact = NoArtifact
    /\ rule_idx = 1
    /\ pc = "call"
    /\ result = "None"
    /\ clicks = <<>>
    /\ hit_log = <<>>
    /\ trail = <<>>
    /\ ScanNotStarted

CallGetVarKeys ==
    /\ pc = "call"
    /\ input.fn = "get_var_keys"
    /\ output' = loop_var_keys(input.expr)
    /\ pc' = "called"
    /\ UNCHANGED back

CallFilter ==
    /\ pc = "call"
    /\ input.fn = "filter"
    /\ output' = filter(input.rule_exprs)
    /\ pc' = "called"
    /\ UNCHANGED back

NextKeys ==
    \/ CallGetVarKeys
    \/ CallFilter

SpecKeys == InitKeys /\ [][NextKeys]_vars

(***************************************************************************)
(* Scanner: the scan of the list, page by page and cell by cell, with the  *)
(* moves between pages.                                                    *)
(***************************************************************************)
\* coordinate_data.artifact_page_rows and artifact_page_cols of the layout
\* explored.
PageRows == 2

PageCols == 1

\* Rows of the lists explored.
MaxTotalRows == 5

\* for _ in 0..30 of move_row, for _ in 0..10 of adjust_row_position, and
\* the distance both compare with.
MoveRowBudget == 30

AdjustBudget == 10

DistanceThreshold == 10

\* color_distance readings of the page-turn indicator against its
\* baseline: on the threshold, above it.
Distances == {DistanceThreshold, DistanceThreshold + 1}

\* A reading of the indicator: a distance, or the window failing under
\* the scroll or the screenshot.
IndicatorReadings == Distances \cup {-1}

WindowFailed(reading) == reading = -1

\* GiaaError and anyhow::Error, and the conversions `?` applies.
RightClickExit == [variant |-> "RightClickExit"]

anyhow(msg) == [msg |-> msg, source |-> "None"]

\* From<GiaaError> for anyhow::Error: the error is boxed as it is.
AnyhowFromGiaa(e) ==
    IF e.variant = "RightClickExit"
    THEN [msg |-> "right click exit", source |-> "RightClickExit"]
    ELSE [msg |-> e.inner.msg, source |-> "AnyhowError"]

\* #[from] anyhow::Error of GiaaError.
GiaaFromAnyhow(a) == [variant |-> "AnyhowError", inner |-> a]

Err(e) == [tag |-> "Err", error |-> e]

\* print_actuator_results: the outcomes counted by kind.
Summary(results) ==
    [lock_and_mark |-> results["LockAndMark"],
     only_lock |-> results["OnlyLock"],
     unlock_and_unmark |-> results["UnlockAndUnmark"]]

NoSummary == [lock_and_mark |-> -1, only_lock |-> -1, unlock_and_unmark |-> -1]

\* A faulty variant of ScanReturn: every error is turned into success.
ScanReturn_Graceful(res, results) ==
    [tag |-> "Ok", error |-> anyhow("none"), summary |-> Summary(results)]

\* Scanner::scan on what scan_all_page returned: the right click is
\* turned into success, any other error is returned before the summary.
ScanReturn(res, results) ==
    IF res.tag = "Ok" \/ res.error.variant = "RightClickExit"
    THEN [tag |-> "Ok", error |-> anyhow("none"),
          summary |-> Summary(results)]
    ELSE [tag |-> "Err", error |-> AnyhowFromGiaa(res.error),
          summary |-> NoSummary]

\* move_rows on an error of move_row, and scan_all_page on an error of
\* move_rows: two `?`, into anyhow::Error and back into GiaaError.
MoveRowsErr(e) == Err(GiaaFromAnyhow(AnyhowFromGiaa(e)))

\* What Identifier::identify reads off a card: the window or the OCR
\* failing, an enhancement material, or an artifact, its level read or
\* not recognised.
Anomalies == {"none", "level"}

IdentifyReadings ==
    [kind : {"failure"}] \cup [kind : {"material"}]
    \cup [kind : {"artifact"}, locked : BOOLEAN, marked : BOOLEAN,
          level : Levels, anomaly : Anomalies]

\* The messages of the errors of identify.
NotRecognised == {"not recognised: " \o anomaly : anomaly \in Anomalies}

IdentifyErrors == {"identify", "marked but not locked"} \cup NotRecognised

\* A faulty variant of identify: strict mode is not looked at.
identify_Lenient(reading, strict_mode) ==
    IF reading.kind = "failure" THEN Err(anyhow("identify"))
    ELSE IF reading.kind = "material" THEN [tag |-> "Material"]
    ELSE IF reading.marked /\ ~reading.locked
    THEN Err(anyhow("marked but not locked"))
    ELSE LET a == MakeArtifact(reading.locked, reading.marked, reading.level)
         IN  [tag |-> "Artifact",
              artifact |->
                  IF reading.anomaly = "level"
                  THEN [a EXCEPT !.level = Dec(0)]
                  ELSE a]

\* A faulty variant of identify: a card read as marked but not locked is
\* returned as an artifact.
identify_Unchecked(reading, strict_mode) ==
    IF reading.kind = "failure" THEN Err(anyhow("identify"))
    ELSE IF reading.kind = "material" THEN [tag |-> "Material"]
    ELSE IF reading.anomaly # "none" /\ strict_mode
    THEN Err(anyhow("not recognised: " \o reading.anomaly))
    ELSE LET a == MakeArtifact(reading.locked, reading.marked, reading.level)
         IN  [tag |-> "Artifact",
              artifact |->
                  IF reading.anomaly = "level"
                  THEN [a EXCEPT !.level = Dec(0)]
                  ELSE a]

\* Identifier::identify: in strict mode an attribute not recognised is an
\* error, otherwise it is left empty or zero; marked but not locked is an
\* error.
identify(reading, strict_mode) ==
    IF reading.kind = "failure" THEN Err(anyhow("identify"))
    ELSE IF reading.kind = "material" THEN [tag |-> "Material"]
    ELSE IF reading.anomaly # "none" /\ strict_mode
    THEN Err(anyhow("not recognised: " \o reading.anomaly))
    ELSE IF reading.marked /\ ~reading.locked
    THEN Err(anyhow("marked but not locked"))
    ELSE LET a == MakeArtifact(reading.locked, reading.marked, reading.level)
         IN  [tag |-> "Artifact",
              artifact |->
                  IF reading.anomaly = "level"
                  THEN [a EXCEPT !.level = Dec(0)]
                  ELSE a]

\* A faulty variant of OnIdentify: an error of identify ends the scan.
OnIdentify_ErrorAborts(res) ==
    IF res.tag = "Artifact" THEN "exec"
    ELSE IF res.tag = "Err" THEN "abort" ELSE "skip"

\* scan_now_page's match on what identify returned.
OnIdentify(res) ==
    IF res.tag = "Artifact" THEN "exec" ELSE "skip"

\* A faulty variant of AfterExec: an error of exec is logged and the next
\* cell is visited.
AfterExec_ErrorSkipped(res) == "next"

\* scan_now_page on what Actuator::exec returned: `?`.
AfterExec(res) == IF res = "Err" THEN "abort" ELSE "next"

\* The rule lists of the scans explored: one whose rules evaluate, one
\* with a rule that reads a stat as a boolean.
ScanRuleLists ==
    {<<from_rule("Lock", ExprLevelZero)>>,
     <<from_rule("LockAndMark", ExprCrit)>>}

\* check_has_artifact_card at cell (row, col) of the screen, the list
\* scrolled down by row_index rows.
HasCard(row, col) ==
    \/ scanner.row_index + row < list.rows - 1
    \/ scanner.row_index + row = list.rows - 1 /\ col < list.last

\* A faulty variant of PartPage: a cell without a card is a fatal error.
PartPage_Fatal == Err(GiaaFromAnyhow(anyhow("no card")))

\* scan_all_page on a page scan_now_page reports as not full: break, Ok.
PartPage == [tag |-> "Ok"]

\* A faulty variant of MoveRowVerdict: a reading at the baseline ends the
\* move whether or not the indicator was seen to leave it.
MoveRowVerdict_NoShiftNeeded(changed, distance) ==
    IF distance <= DistanceThreshold THEN "return" ELSE "changed"

\* move_row on a reading: the if / else if after the scroll.
MoveRowVerdict(changed, distance) ==
    IF changed /\ distance <= DistanceThreshold THEN "return"
    ELSE IF ~changed /\ distance > DistanceThreshold THEN "changed"
    ELSE "continue"

\* A faulty variant of MoveRowExhausted: one attempt more.
MoveRowExhausted_OneMore(attempts) == attempts >= MoveRowBudget + 1

\* The loop of move_row has run all its iterations.
MoveRowExhausted(attempts) == attempts >= MoveRowBudget

\* A faulty variant of AdjustSettled: a reading just above the threshold
\* counts as settled.
AdjustSettled_Loose(distance) == distance < DistanceThreshold + 2

\* adjust_row_position on a reading, and its loop at its end.
AdjustSettled(distance) == distance <= DistanceThreshold

AdjustExhausted(attempts) == attempts >= AdjustBudget

\* A faulty variant of calculate_page_scroll_count: multiplied first.
calculate_page_scroll_count_MultiplyFirst(page_scroll_count, row_count) ==
    (page_scroll_count * row_count) \div PageRows

\* Scanner::calculate_page_scroll_count, in u32.
calculate_page_scroll_count(page_scroll_count, row_count) ==
    (page_scroll_count \div PageRows) * row_count

\* Scanner::new and the call of scan: nothing scanned, no card in the
\* actuator.
ScanEntered ==
    /\ scanner = NewScanner
    /\ frame = NoFrame
    /\ observed = NothingObserved
    /\ pc = "scan"
    /\ input = [fn |-> "scan"]
    /\ output = NoOutput
    /\ artifact = NoArtifact
    /\ before_artifact = NoArtifact
    /\ rule_idx = 1
    /\ result = "None"
    /\ clicks = <<>>
    /\ hit_log = <<>>
    /\ trail = <<>>
    /\ rules = <<>>
    /\ prefix_operand = "SameLevel"

InitScan ==
    /\ rule_exprs \in ScanRuleLists
    /\ args \in [strict_mode : BOOLEAN]
    /\ list \in [rows : 1..MaxTotalRows, last : 1..PageCols]
    /\ ScanEntered

\* What the scanner leaves alone while no card is in the actuator.
actuator_idle ==
    <<rule_exprs, artifact, before_artifact, rule_idx, result, clicks,
      hit_log, trail, rules, prefix_operand, input, args, list>>

\* scan_all_page returned res: Scanner::scan returns.
EndScan(res) ==
    /\ pc' = "ended"
    /\ output' = ScanReturn(res, scanner.actuator_results)

\* A faulty variant of PageFrame: the page is scanned from its first row.
PageFrame_FromTop(count) ==
    [NoFrame EXCEPT !.page_rows = count, !.row = 0]

\* A faulty variant of NextPageRows: always a whole page.
NextPageRows_WholePage(remaining_rows) == PageRows

\* scan_all_page: artifact_page_rows.min(remaining_rows), the rows to move
\* and then to scan.
NextPageRows(remaining_rows) ==
    IF PageRows < remaining_rows THEN PageRows ELSE remaining_rows

\* scan_now_page entered on the rows start .. start + count - 1.
PageFrame(count) ==
    [NoFrame EXCEPT !.page_rows = count, !.row = PageRows - count]

\* The next cell of scan_now_page's loops, or the page finished.
AfterCell ==
    IF frame.col + 1 < PageCols
    THEN /\ frame' = [frame EXCEPT !.col = frame.col + 1]
         /\ pc' = "cell"
    ELSE IF frame.row + 1 < PageRows
    THEN /\ frame' = [frame EXCEPT !.row = frame.row + 1, !.col = 0]
         /\ pc' = "cell"
    ELSE /\ frame' = frame
         /\ pc' = "page_end"

\* Scanner::scan up to scan_all_page: the screenshot and init_backpack,
\* which fails off the backpack screen and on an empty list.
ScanStart(backpack_ok) ==
    /\ pc = "scan"
    /\ IF backpack_ok
       THEN /\ pc' = "cell"
            /\ frame' = PageFrame(PageRows)
            /\ UNCHANGED output
       ELSE /\ pc' = "ended"
            /\ output' = [tag |-> "Err", error |-> anyhow("init_backpack"),
                          summary |-> NoSummary]
            /\ UNCHANGED frame
    /\ UNCHANGED <<actuator_idle, scanner, observed>>

\* The ways a cell of scan_now_page ends before exec: the right button
\* seen down at the poll; a call of the window failing (the click, the
\* screenshot, the card check); no card in the cell; identify called.
CellCancelled ==
    /\ EndScan(Err(RightClickExit))
    /\ observed' = [observed EXCEPT !.event = "cancel",
                                    !.nav = NoNavigation]
    /\ UNCHANGED <<actuator_idle, scanner, frame>>

CellWindowFailed ==
    /\ EndScan(Err(GiaaFromAnyhow(anyhow("window"))))
    /\ observed' = [observed EXCEPT !.event = "window",
                                    !.nav = NoNavigation]
    /\ UNCHANGED <<actuator_idle, scanner, frame>>

CellEmpty ==
    /\ EndScan(PartPage)
    /\ observed' = [observed EXCEPT !.cells = @ + 1,
                                    !.event = "no_card",
                                    !.nav = NoNavigation]
    /\ UNCHANGED <<actuator_idle, scanner, frame>>

CellIdentified(reading) ==
    \E res \in {identify(reading, args.strict_mode)} :
       IF OnIdentify(res) = "exec"
       THEN /\ ExecEntered(res.artifact)
            /\ observed' = [observed EXCEPT
                               !.cells = @ + 1,
                               !.handed = @ + 1,
                               !.event =
                                   IF reading.anomaly # "none"
                                   THEN "handed_not_recognised"
                                   ELSE "other",
                               !.nav = NoNavigation]
            /\ UNCHANGED <<rule_exprs, rules, prefix_operand, input,
                           output, args, list, scanner, frame>>
       ELSE /\ observed' =
                  [observed EXCEPT
                      !.cells = @ + 1,
                      !.event = IF res.tag = "Err" THEN res.error.msg
                                ELSE "other",
                      !.nav = NoNavigation]
            /\ IF OnIdentify(res) = "abort"
               THEN /\ EndScan(Err(GiaaFromAnyhow(res.error)))
                    /\ UNCHANGED <<actuator_idle, scanner, frame>>
               ELSE /\ AfterCell
                    /\ UNCHANGED <<actuator_idle, scanner, output>>

\* A faulty variant of VisitCell: the cell is clicked before the right
\* button is polled.
VisitCell_ClickBeforePoll(cancel, window_ok, reading) ==
    /\ pc = "cell"
    /\ IF ~window_ok THEN CellWindowFailed
       ELSE IF cancel THEN CellCancelled
       ELSE IF ~HasCard(frame.row, frame.col) THEN CellEmpty
       ELSE CellIdentified(reading)

\* One cell of scan_now_page up to the call of exec: the poll of the right
\* button, the click, the screenshot, the card check, identify.
VisitCell(cancel, window_ok, reading) ==
    /\ pc = "cell"
    /\ IF cancel THEN CellCancelled
       ELSE IF ~window_ok THEN CellWindowFailed
       ELSE IF ~HasCard(frame.row, frame.col) THEN CellEmpty
       ELSE CellIdentified(reading)

\* scan_now_page after exec: `?` on an error, otherwise the outcome is
\* pushed and the next cell is visited; the artifact is dropped.
ScanExecReturn ==
    /\ pc = "returned"
    /\ IF AfterExec(result) = "abort"
       THEN /\ EndScan(Err(GiaaFromAnyhow(anyhow("exec"))))
            /\ UNCHANGED <<scanner, frame>>
       ELSE /\ scanner' =
                  [scanner EXCEPT !.actuator_results =
                      IF result = "Err" THEN @ ELSE Push(@, result)]
            /\ AfterCell
            /\ UNCHANGED output
    /\ artifact' = NoArtifact
    /\ before_artifact' = NoArtifact
    /\ rule_idx' = 1
    /\ result' = "None"
    /\ clicks' = <<>>
    /\ hit_log' = <<>>
    /\ trail' = <<>>
    /\ observed' =
          [observed EXCEPT !.event =
              IF result # "Err" THEN "other"
              ELSE IF rule_idx <= Len(rule_exprs) THEN "eval_error"
              ELSE "click_error"]
    /\ UNCHANGED <<rule_exprs, rules, prefix_operand, input, args, list>>

\* scan_all_page after a full page: the screenshot, the rows the
\* scrollbar tells of, the rows left.
PageEnd(window_ok) ==
    /\ pc = "page_end"
    /\ IF ~window_ok
       THEN /\ EndScan(Err(GiaaFromAnyhow(anyhow("window"))))
            /\ UNCHANGED frame
       ELSE LET remaining_rows == list.rows - scanner.row_index - PageRows
            IN  IF remaining_rows = 0
                THEN /\ EndScan([tag |-> "Ok"])
                     /\ UNCHANGED frame
                ELSE /\ pc' = "move_rows"
                     /\ frame' =
                           [frame EXCEPT !.page_rows =
                               NextPageRows(remaining_rows)]
                     /\ UNCHANGED output
    /\ observed' = [observed EXCEPT !.event = "other"]
    /\ UNCHANGED <<actuator_idle, scanner>>

\* move_rows(page_rows) up to its loop over move_row or to the call of
\* adjust_row_position: once a page of rows lies behind, the units of
\* calculate_page_scroll_count are scrolled in one go.
MoveRows(window_ok) ==
    /\ pc = "move_rows"
    /\ IF ~window_ok
       THEN /\ EndScan(Err(GiaaFromAnyhow(anyhow("window"))))
            /\ UNCHANGED <<scanner, frame, observed>>
       ELSE IF scanner.row_index >= PageRows
       THEN \E units \in {calculate_page_scroll_count(
                              scanner.page_scroll_count, frame.page_rows)} :
               /\ scanner' =
                     [scanner EXCEPT !.row_index = @ + frame.page_rows]
               /\ frame' = [frame EXCEPT !.attempt = 0]
               /\ observed' =
                     [observed EXCEPT !.nav =
                         [NoNavigation EXCEPT
                             !.fn = "adjust_row_position",
                             !.outcome = "Running",
                             !.rows = frame.page_rows,
                             !.bulk = units]]
               /\ pc' = "adjust"
               /\ UNCHANGED output
       ELSE /\ frame' = [frame EXCEPT !.rows_left = frame.page_rows,
                                      !.changed = FALSE, !.attempt = 0]
            /\ observed' =
                  [observed EXCEPT !.nav =
                      [NoNavigation EXCEPT !.fn = "move_row",
                                           !.outcome = "Running"]]
            /\ pc' = "move_row"
            /\ UNCHANGED <<scanner, output>>
    /\ UNCHANGED actuator_idle

\* The reading added to what was observed of the navigation call.
Read(nav, distance) ==
    [nav EXCEPT !.reads = @ + 1,
                !.last = distance,
                !.shifted_before =
                    @ \/ (nav.reads > 0 /\ nav.last > DistanceThreshold)]

\* What was observed of the call of move_row in progress: nothing yet on
\* its first iteration.
MoveRowSoFar ==
    IF frame.attempt = 0
    THEN [NoNavigation EXCEPT !.fn = "move_row", !.outcome = "Running"]
    ELSE observed.nav

\* One iteration of the loop of move_row: the poll of the right button,
\* one unit scrolled, the indicator read.  On its return move_rows counts
\* the row and calls it again, or returns to scan_all_page.
MoveRowStep(cancel, reading) ==
    /\ pc = "move_row"
    /\ IF cancel
       THEN /\ EndScan(MoveRowsErr(RightClickExit))
            /\ observed' =
                  [observed EXCEPT
                      !.event = "cancel",
                      !.nav = [MoveRowSoFar EXCEPT
                                  !.outcome = "RightClickExit"]]
            /\ UNCHANGED <<scanner, frame>>
       ELSE IF WindowFailed(reading)
       THEN /\ EndScan(MoveRowsErr(GiaaFromAnyhow(anyhow("window"))))
            /\ observed' =
                  [observed EXCEPT
                      !.nav = [MoveRowSoFar EXCEPT !.outcome = "WindowError"]]
            /\ UNCHANGED <<scanner, frame>>
       ELSE \E verdict \in {MoveRowVerdict(frame.changed, reading)},
               nav \in {Read([MoveRowSoFar EXCEPT !.units = @ + 1],
                             reading)} :
               IF verdict = "return"
               THEN /\ scanner' =
                          [scanner EXCEPT !.page_scroll_count = @ + 1,
                                          !.row_index = @ + 1]
                    /\ observed' =
                          [observed EXCEPT
                              !.single_rows = @ + 1,
                              !.single_units = @ + 1,
                              !.nav = [nav EXCEPT !.outcome = "Ok"]]
                    /\ IF frame.rows_left > 1
                       THEN /\ frame' = [frame EXCEPT !.rows_left = @ - 1,
                                                      !.changed = FALSE,
                                                      !.attempt = 0]
                            /\ pc' = "move_row"
                       ELSE /\ frame' = PageFrame(frame.page_rows)
                            /\ pc' = "cell"
                    /\ UNCHANGED output
               ELSE /\ scanner' =
                          [scanner EXCEPT !.page_scroll_count = @ + 1]
                    /\ IF MoveRowExhausted(frame.attempt + 1)
                       THEN /\ EndScan(MoveRowsErr(
                                   GiaaFromAnyhow(anyhow("move_row"))))
                            /\ observed' =
                                  [observed EXCEPT
                                      !.single_units = @ + 1,
                                      !.nav =
                                      [nav EXCEPT !.outcome = "RetryBudget"]]
                            /\ UNCHANGED frame
                       ELSE /\ frame' =
                                  [frame EXCEPT
                                      !.changed = @ \/ verdict = "changed",
                                      !.attempt = @ + 1]
                            /\ observed' = [observed EXCEPT
                                               !.single_units = @ + 1,
                                               !.nav = nav]
                            /\ pc' = "move_row"
                            /\ UNCHANGED output
    /\ UNCHANGED actuator_idle

\* One iteration of the loop of adjust_row_position: the indicator read,
\* then one unit scrolled unless it is back at the baseline.  On its
\* return move_rows returns to scan_all_page.
AdjustStep(reading) ==
    /\ pc = "adjust"
    /\ IF WindowFailed(reading)
       THEN /\ EndScan(Err(GiaaFromAnyhow(anyhow("window"))))
            /\ observed' = [observed EXCEPT !.nav.outcome = "WindowError"]
            /\ UNCHANGED <<scanner, frame>>
       ELSE \E nav \in {Read(observed.nav, reading)} :
               IF AdjustSettled(reading)
               THEN /\ observed' =
                          [observed EXCEPT !.nav =
                              [nav EXCEPT !.outcome = "Ok"]]
                    /\ frame' = PageFrame(frame.page_rows)
                    /\ pc' = "cell"
                    /\ UNCHANGED <<scanner, output>>
               ELSE /\ UNCHANGED scanner
                    /\ IF AdjustExhausted(frame.attempt + 1)
                       THEN /\ EndScan(Err(GiaaFromAnyhow(
                                   anyhow("adjust_row_position"))))
                            /\ observed' =
                                  [observed EXCEPT !.nav =
                                      [nav EXCEPT !.units = @ + 1,
                                                  !.outcome = "RetryBudget"]]
                            /\ UNCHANGED frame
                       ELSE /\ frame' = [frame EXCEPT !.attempt = @ + 1]
                            /\ observed' =
                                  [observed EXCEPT !.nav =
                                      [nav EXCEPT !.units = @ + 1]]
                            /\ pc' = "adjust"
                            /\ UNCHANGED output
    /\ UNCHANGED actuator_idle

NextScan ==
    \/ \E backpack_ok \in BOOLEAN : ScanStart(backpack_ok)
    \/ \E cancel \in BOOLEAN, window_ok \in BOOLEAN,
          reading \in IdentifyReadings :
          VisitCell(cancel, window_ok, reading)
    \/ ExecRule
    \/ ExecFinish
    \/ ScanExecReturn
    \/ \E window_ok \in BOOLEAN : PageEnd(window_ok)
    \/ \E window_ok \in BOOLEAN : MoveRows(window_ok)
    \/ \E cancel \in BOOLEAN, reading \in IndicatorReadings :
          MoveRowStep(cancel, reading)
    \/ \E reading \in IndicatorReadings : AdjustStep(reading)

SpecScan == InitScan /\ [][NextScan]_vars

\* A scan of a list of three full pages under one rule list: the second
\* page is reached one row at a time, the third by one bulk move of a
\* whole page.
InitThreePages ==
    /\ rule_exprs = <<from_rule("Lock", ExprLevelZero)>>
    /\ args = [strict_mode |-> FALSE]
    /\ list \in [rows : {3 * PageRows}, last : 1..PageCols]
    /\ ScanEntered

SpecThreePages == InitThreePages /\ [][NextScan]_vars

\* A scan of a list of one page at most: scan_now_page is entered once
\* and scan_all_page leaves its loop on its first pass, without a move.
InitOnePage ==
    /\ rule_exprs \in ScanRuleLists
    /\ args \in [strict_mode : BOOLEAN]
    /\ list \in [rows : 1..PageRows, last : 1..PageCols]
    /\ ScanEntered

NextOnePage ==
    \/ \E backpack_ok \in BOOLEAN : ScanStart(backpack_ok)
    \/ \E cancel \in BOOLEAN, window_ok \in BOOLEAN,
          reading \in IdentifyReadings :
          VisitCell(cancel, window_ok, reading)
    \/ ExecRule
    \/ ExecFinish
    \/ ScanExecReturn
    \/ \E window_ok \in BOOLEAN : PageEnd(window_ok)

SpecOnePage == InitOnePage /\ [][NextOnePage]_vars

(***************************************************************************)
(* The rows left after a full page, as scan_all_page computes them from    *)
(* the scrollbar of the screenshot.  The list itself is not part of this   *)
(* view: it shows through the thumb on the track and through whether the   *)
(* next page is full.                                                      *)
(***************************************************************************)
\* coordinate_data.artifact_list_scrollbar_height, in pixels.
TrackHeight == 12

\* coordinate_data.artifact_list_card_vertical_interval, in pixels.
CardInterval == 3

\* coordinate_data.artifact_list_height: the page shows PageRows rows.
ListHeight == PageRows * CardInterval

\* The width of u32, scaled to 16 bits: the only values of this view that
\* reach it are the saturated cast and the wrapped difference.
U32Modulus == 2^16

U32Max == U32Modulus - 1

\* The thumbs a screenshot can show: a run of at least two pixels of the
\* thumb's colour, anywhere on the track.
ThumbRuns ==
    {run[1]..run[2] :
        run \in {ends \in (0..(TrackHeight - 1)) \X (0..(TrackHeight - 1)) :
                    ends[1] < ends[2]}}

\* get_scrollbar on a track whose pixels of the thumb's colour are thumb:
\* the first of them is scroll_length, the last of the others is
\* button_end_y.
get_scrollbar(thumb) ==
    LET scroll_length ==
            IF thumb = {} THEN 0
            ELSE CHOOSE y \in thumb : \A z \in thumb : y <= z
        later == thumb \ {scroll_length}
        button_end_y ==
            IF later = {} THEN 0
            ELSE CHOOSE y \in later : \A z \in later : z <= y
    IN  [height |-> TrackHeight,
         button_height |-> button_end_y - scroll_length,
         scroll_length |-> scroll_length]

\* (num / den).floor() as u32 of f32 values: the cast saturates, NaN is 0.
FloorAsU32(num, den) ==
    IF den = 0 THEN (IF num > 0 THEN U32Max ELSE 0)
    ELSE IF num = 0 \/ (num < 0) # (den < 0) THEN 0
    ELSE IF Abs(num) \div Abs(den) > U32Max THEN U32Max
    ELSE Abs(num) \div Abs(den)

\* get_artifact_list_total_rows: past the first page the rows scrolled per
\* pixel of the thumb's way, else the rows shown per pixel of the thumb.
\* scroll_count cancels in the first formula.
get_artifact_list_total_rows(scrollbar, row_index) ==
    IF row_index > PageRows - 1
    THEN FloorAsU32((scrollbar.height - scrollbar.button_height) * row_index
                        + PageRows * scrollbar.scroll_length,
                    scrollbar.scroll_length)
    ELSE FloorAsU32(scrollbar.height * ListHeight,
                    scrollbar.button_height * CardInterval)

\* Rows above the page up to which the view follows the scan.
MaxRowIndex == 2 * MaxTotalRows

\* The first page has been scanned and was full.
InitRows ==
    /\ pc = "page_end"
    /\ scanner = NewScanner
    /\ frame = [NoFrame EXCEPT !.page_rows = PageRows]
    /\ observed = NothingObserved
    /\ input = [fn |-> "scan"]
    /\ output = NoOutput
    /\ rule_exprs = <<>>
    /\ args = [strict_mode |-> FALSE]
    /\ list = [rows |-> 0, last |-> 0]
    /\ artifact = NoArtifact
    /\ before_artifact = NoArtifact
    /\ rule_idx = 1
    /\ result = "None"
    /\ clicks = <<>>
    /\ hit_log = <<>>
    /\ trail = <<>>
    /\ rules = <<>>
    /\ prefix_operand = "SameLevel"

\* scan_all_page after a full page: the total the scrollbar tells of and
\* the subtraction in u32, which panics when the build checks overflow
\* and wraps when it does not.
RowsLeft(thumb, overflow_checks) ==
    /\ pc = "page_end"
    /\ LET row_count ==
               get_artifact_list_total_rows(get_scrollbar(thumb),
                                            scanner.row_index)
           difference == row_count - scanner.row_index - PageRows
           remaining_rows == difference % U32Modulus
       IN  /\ output' = [tag |-> "Rows", row_index |-> scanner.row_index,
                         row_count |-> row_count,
                         remaining_rows |-> remaining_rows]
           /\ IF difference < 0 /\ overflow_checks
              THEN pc' = "aborted" /\ UNCHANGED frame
              ELSE IF remaining_rows = 0
              THEN pc' = "ended" /\ UNCHANGED frame
              ELSE /\ pc' = "move_rows"
                   /\ frame' = [frame EXCEPT !.page_rows =
                                    NextPageRows(remaining_rows)]
    /\ UNCHANGED <<actuator_idle, scanner, observed>>

\* move_rows(page_rows) and the scan of the page it brings: full or not.
RowsMoved(is_full_page) ==
    /\ pc = "move_rows"
    /\ scanner.row_index + frame.page_rows <= MaxRowIndex
    /\ scanner' = [scanner EXCEPT !.row_index = @ + frame.page_rows]
    /\ pc' = IF is_full_page THEN "page_end" ELSE "ended"
    /\ UNCHANGED <<actuator_idle, frame, observed, output>>

NextRows ==
    \/ \E thumb \in ThumbRuns, overflow_checks \in BOOLEAN :
          RowsLeft(thumb, overflow_checks)
    \/ \E is_full_page \in BOOLEAN : RowsMoved(is_full_page)

SpecRows == InitRows /\ [][NextRows]_vars

(***************************************************************************)
(* Properties of the actuation state machine.                              *)
(***************************************************************************)
FF == [locked |-> FALSE, marked |-> FALSE]
TF == [locked |-> TRUE, marked |-> FALSE]
TT == [locked |-> TRUE, marked |-> TRUE]
FT == [locked |-> FALSE, marked |-> TRUE]

\* exec is running or has returned.
InExec == pc \in {"rules", "returned", "aborted"}

\* exec ran every rule and went on to click.
ExecClicked == pc = "returned" /\ rule_idx > Len(rule_exprs)

\* The controls clicked, in order.
Controls == [i \in DOMAIN clicks |-> clicks[i].control]

\* Rule i was hit.
WasHit(i) == \E k \in DOMAIN hit_log : hit_log[k] = i

\* C1: whatever the rule list and the legal state the artifact was
\* recognised in, the simulated state is never (held = false, flagged =
\* true): not after any rule application, not at the end of exec.
C1_NeverFlaggedUnheld ==
    InExec =>
        /\ State(artifact) # FT
        /\ \A i \in DOMAIN trail : trail[i] # FT

\* C1 witness: a card recognised held and flagged went through a hit
\* ToggleHeld and then a hit ToggleFlag rule, and exec returned.
C1_Witness ==
    /\ ExecClicked
    /\ trail[1] = TT
    /\ Len(hit_log) = 2
    /\ rule_exprs[hit_log[1]].action = "ClickLock"
    /\ rule_exprs[hit_log[2]].action = "ClickMark"

\* C2: the clicks follow the minimality matrix over (original, final):
\* FF->TF one hold click, TF->TT one flag click, TT->TF one flag click,
\* TF->FF one hold click, and no click when original = final.
C2_MinimalityMatrix ==
    ExecClicked =>
        LET o == State(before_artifact)
            f == State(artifact)
        IN  /\ (o = FF /\ f = TF) => Controls = <<"artifact_lock">>
            /\ (o = TF /\ f = TT) => Controls = <<"artifact_mark">>
            /\ (o = TT /\ f = TF) => Controls = <<"artifact_mark">>
            /\ (o = TF /\ f = FF) => Controls = <<"artifact_lock">>
            /\ (o = f) => Controls = <<>>

\* C2 witness: a held and flagged card whose rules leave it held only got
\* its one flag click.
C2_Witness ==
    /\ ExecClicked
    /\ State(before_artifact) = TT
    /\ State(artifact) = TF
    /\ Controls = <<"artifact_mark">>

\* C3: the two transitions that change both bits take a single click:
\* FF->TT one flag click and no hold click, TT->FF one hold click and no
\* flag click.
C3_CoupledSingleClick ==
    ExecClicked =>
        LET o == State(before_artifact)
            f == State(artifact)
        IN  /\ (o = FF /\ f = TT) => Controls = <<"artifact_mark">>
            /\ (o = TT /\ f = FF) => Controls = <<"artifact_lock">>

\* C3 witness: a card recognised neither held nor flagged ends held and
\* flagged.
C3_Witness ==
    /\ ExecClicked
    /\ State(before_artifact) = FF
    /\ State(artifact) = TT
    /\ Len(clicks) = 1

\* The transition table of the actions, on (locked, marked).
TableEffect(action, s) ==
    CASE action = "ClickLock" ->
            [locked |-> ~s.locked,
             marked |-> IF s.locked /\ s.marked THEN FALSE ELSE s.marked]
      [] action = "ClickMark" ->
            [locked |-> IF ~s.marked /\ ~s.locked THEN TRUE ELSE s.locked,
             marked |-> ~s.marked]
      [] action = "Lock" -> [locked |-> TRUE, marked |-> s.marked]
      [] action = "OnlyLock" -> TF
      [] action = "LockAndMark" -> TT
      [] action = "UnLockAndMark" -> FF

\* What rule_expr evaluates to on the recognised card put in state s.
EvalIn(rule_expr, s) ==
    ParserExec(Precision, rule_expr.expr,
               generate_vars([before_artifact EXCEPT !.locked = s.locked,
                                                     !.marked = s.marked],
                             rule_expr.expr_var_key))

\* The left fold of the first k rules over the state s0: a rule that
\* evaluates to true applies its action to the state the rules before it
\* produced, any other rule leaves the state alone.
RECURSIVE FoldRules(_, _, _)
FoldRules(rs, k, s0) ==
    IF k = 0 THEN s0
    ELSE LET s == FoldRules(rs, k - 1, s0)
             res == EvalIn(rs[k], s)
         IN  IF res.tag = "Boolean" /\ res.b
             THEN TableEffect(rs[k].action, s)
             ELSE s

\* The rules among the first k that evaluate to true in the fold.
FoldHits(rs, k, s0) ==
    {i \in 1..k :
        LET res == EvalIn(rs[i], FoldRules(rs, i - 1, s0))
        IN  res.tag = "Boolean" /\ res.b}

\* C4: exec applies the rules in order and without short-circuit: the
\* simulated state is the left fold over the rules run so far, each
\* evaluated against the state the preceding rules produced; every rule
\* that evaluates to true is applied; exec goes on to click only after the
\* whole list.
C4_LeftFold ==
    pc \in {"rules", "returned"} =>
        /\ rule_idx \in 1..(Len(rule_exprs) + 1)
        /\ State(artifact)
             = FoldRules(rule_exprs, rule_idx - 1, State(before_artifact))
        /\ {hit_log[k] : k \in DOMAIN hit_log}
             = FoldHits(rule_exprs, rule_idx - 1, State(before_artifact))
        /\ (pc = "returned" /\ result # "Err") => rule_idx = Len(rule_exprs) + 1

\* C4 witness: the second rule reads "locked" and is hit only because the
\* first rule, hit too, locked a card recognised unlocked.
C4_Witness ==
    /\ ExecClicked
    /\ ~before_artifact.locked
    /\ hit_log = <<1, 2>>
    /\ rule_exprs[2].expr = ExprLocked
    /\ rule_exprs[2].action = "ClickMark"
    /\ State(artifact) = TT

\* The clicks as a function of the original and the final state alone.
ExpectedControls(o, f) ==
    CASE f = TT -> IF o.marked THEN <<>> ELSE <<"artifact_mark">>
      [] f = TF -> IF o = TT THEN <<"artifact_mark">>
                   ELSE IF o = FF THEN <<"artifact_lock">> ELSE <<>>
      [] f = FF -> IF o.locked THEN <<"artifact_lock">> ELSE <<>>
      [] OTHER -> <<>>

\* C5: the clicks depend on the original and the final simulated state
\* only: they are one fixed function of the two, and a rule sequence that
\* brings the card back to its original state emits no click, whatever
\* the states in between.
C5_ClicksFromEndpointsOnly ==
    ExecClicked =>
        /\ Controls = ExpectedControls(State(before_artifact), State(artifact))
        /\ State(artifact) = State(before_artifact) => clicks = <<>>

\* C5 witness: the state changed after the first rule and was back at the
\* original after the second; no click.
C5_Witness ==
    /\ ExecClicked
    /\ Len(trail) = 3
    /\ trail[2] # trail[1]
    /\ trail[3] = trail[1]
    /\ clicks = <<>>

\* The rules hit so far, by position, with the given action.
HitsOf(action) ==
    {i \in 1..Len(rule_exprs) : WasHit(i) /\ rule_exprs[i].action = action}

\* C6: a hit ToggleHeld rule negates held and clears flagged when that
\* releases a flagged card; flagged is unchanged otherwise: TT->FF,
\* TF->FF, FF->TF.
C6_ToggleHeld ==
    InExec =>
        \A i \in HitsOf("ClickLock") :
            /\ trail[i + 1].locked = ~trail[i].locked
            /\ trail[i + 1].marked
                 = IF trail[i].marked /\ ~trail[i + 1].locked THEN FALSE
                   ELSE trail[i].marked
            /\ trail[i] = TT => trail[i + 1] = FF
            /\ trail[i] = TF => trail[i + 1] = FF
            /\ trail[i] = FF => trail[i + 1] = TF

\* C6 witness: a hit ToggleHeld rule took a held and flagged card to
\* neither.
C6_Witness ==
    /\ InExec
    /\ \E i \in HitsOf("ClickLock") : trail[i] = TT /\ trail[i + 1] = FF

\* C7: a hit ToggleFlag rule negates flagged and sets held when that
\* flags a card not held; held is unchanged otherwise: FF->TT, TF->TT,
\* TT->TF.
C7_ToggleFlag ==
    InExec =>
        \A i \in HitsOf("ClickMark") :
            /\ trail[i + 1].marked = ~trail[i].marked
            /\ trail[i + 1].locked
                 = IF ~trail[i].locked /\ trail[i + 1].marked THEN TRUE
                   ELSE trail[i].locked
            /\ trail[i] = FF => trail[i + 1] = TT
            /\ trail[i] = TF => trail[i + 1] = TT
            /\ trail[i] = TT => trail[i + 1] = TF

\* C7 witness: a hit ToggleFlag rule flagged, and so held, a card that
\* was neither.
C7_Witness ==
    /\ InExec
    /\ \E i \in HitsOf("ClickMark") : trail[i] = FF /\ trail[i + 1] = TT

\* The rule list of the one rule "level == 0 -> Hold".
HoldRuleOnly == <<from_rule("Lock", ExprLevelZero)>>

\* C8: a hit Hold rule sets held and leaves flagged alone; with the one
\* rule "level == 0 -> Hold" hit, cards recognised FF, TF, TT end TF, TF,
\* TT, with one hold click, no click, no click, and exec returns HeldOnly,
\* HeldOnly, HeldAndFlagged.
C8_Hold ==
    /\ InExec =>
          \A i \in HitsOf("Lock") :
              trail[i + 1] = [locked |-> TRUE, marked |-> trail[i].marked]
    /\ (ExecClicked /\ rule_exprs = HoldRuleOnly /\ hit_log = <<1>>) =>
          LET o == State(before_artifact)
              f == State(artifact)
          IN  /\ o = FF => /\ f = TF
                           /\ Controls = <<"artifact_lock">>
                           /\ result \in {"OnlyLock", "Err"}
              /\ o = TF => f = TF /\ clicks = <<>> /\ result = "OnlyLock"
              /\ o = TT => f = TT /\ clicks = <<>> /\ result = "LockAndMark"

\* C8 witness: the one Hold rule was hit on a card recognised neither held
\* nor flagged, and exec returned HeldOnly after its hold click.
C8_Witness ==
    /\ ExecClicked
    /\ rule_exprs = HoldRuleOnly
    /\ hit_log = <<1>>
    /\ State(before_artifact) = FF
    /\ result = "OnlyLock"
    /\ Len(clicks) = 1

AbsoluteActions == {"OnlyLock", "LockAndMark", "UnLockAndMark"}

\* C9: a hit HoldOnly rule yields TF, a hit HoldAndFlag rule TT, a hit
\* ReleaseAndUnflag rule FF, whatever the state before; the same one hit
\* twice in a row changes nothing the second time.
C9_AbsoluteActions ==
    InExec =>
        /\ \A i \in HitsOf("OnlyLock") : trail[i + 1] = TF
        /\ \A i \in HitsOf("LockAndMark") : trail[i + 1] = TT
        /\ \A i \in HitsOf("UnLockAndMark") : trail[i + 1] = FF
        /\ \A a \in AbsoluteActions :
              \A i \in HitsOf(a) :
                  (i + 1) \in HitsOf(a) => trail[i + 2] = trail[i + 1]

\* C9 witness: HoldOnly hit twice in a row on a card recognised held and
\* flagged.
C9_Witness ==
    /\ InExec
    /\ trail[1] = TT
    /\ {1, 2} \subseteq HitsOf("OnlyLock")
    /\ Len(trail) = 3
    /\ trail[2] = TF
    /\ trail[3] = TF

\* How many clicks went to one control.
ClickCount(control) ==
    Cardinality({i \in DOMAIN clicks : clicks[i].control = control})

\* C10: one call of exec clicks the hold control at most once and the flag
\* control at most once.
C10_AtMostOneClickEach ==
    /\ ClickCount("artifact_lock") <= 1
    /\ ClickCount("artifact_mark") <= 1

\* C10 witness: two rules were hit, both changing the state, and exec
\* clicked once.
C10_Witness ==
    /\ ExecClicked
    /\ Len(hit_log) = 2
    /\ trail[2] # trail[1]
    /\ trail[3] # trail[2]
    /\ Len(clicks) = 1


\* C12: the outcome exec returns is decided by the final simulated state
\* alone: LockAndMark exactly for held and flagged, OnlyLock exactly for
\* held and not flagged, UnlockAndUnmark exactly for neither, whether or
\* not a click was needed.
C12_OutcomeByFinalState ==
    (pc = "returned" /\ result # "Err") =>
        /\ result \in {"LockAndMark", "OnlyLock", "UnlockAndUnmark"}
        /\ (result = "LockAndMark") <=> (State(artifact) = TT)
        /\ (result = "OnlyLock") <=> (State(artifact) = TF)
        /\ (result = "UnlockAndUnmark") <=> (State(artifact) = FF)

\* C12 witness: a rule was hit and changed the state of a card recognised
\* held and flagged, exec clicked and returned OnlyLock.
C12_Witness ==
    /\ pc = "returned"
    /\ result = "OnlyLock"
    /\ trail[1] = TT
    /\ hit_log # <<>>
    /\ clicks # <<>>


\* exec went through the whole rule list and ended on not held but flagged.
EndedFlaggedUnheld ==
    /\ pc \in {"returned", "aborted"}
    /\ rule_idx > Len(rule_exprs)
    /\ State(artifact) = FT

Loaded == pc \notin {"load", "load_failed"}

\* Every variable the expression reads is in the declared vocabulary.
Declared(expr) ==
    /\ loop_var_keys(expr).boolean_keys \subseteq VarKey.boolean_keys
    /\ loop_var_keys(expr).number_keys \subseteq VarKey.number_keys

\* C13: an expression that reads a variable absent from the declared
\* vocabulary, wherever in the tree, is rejected when the rules are
\* compiled: no rule the compiler accepted, and so no expression handed to
\* Parser::exec, reads an undeclared variable.
C13_UndeclaredRejected ==
    Loaded => \A i \in DOMAIN rule_exprs : Declared(rule_exprs[i].expr)

\* The errors Parser::exec gives for a variable without a binding.
MissingVariable(expr_var_key) ==
    {"boolean variable not supported: " \o k : k \in expr_var_key.boolean_keys}
    \cup {"number variable not supported: " \o k :
             k \in expr_var_key.number_keys}

\* C14: for every rule the compiler accepted and every recognised
\* artifact, the bindings generate_vars builds hold every variable the
\* rule's expression reads, and the evaluation in exec does not fail for a
\* missing variable.  Stated for the rules that read declared names only.
C14_BindingsCover ==
    (Loaded /\ pc = "rules" /\ rule_idx <= Len(rule_exprs)
        /\ Declared(rule_exprs[rule_idx].expr)) =>
        LET rule_expr == rule_exprs[rule_idx]
            expr_var == generate_vars(artifact, rule_expr.expr_var_key)
            res == RuleResult(rule_expr, artifact)
        IN  /\ rule_expr.expr_var_key.boolean_keys
                   \subseteq DOMAIN expr_var.boolean_vars
            /\ rule_expr.expr_var_key.number_keys
                   \subseteq DOMAIN expr_var.number_vars
            /\ ~(res.tag = "Err"
                  /\ res.msg \in MissingVariable(rule_expr.expr_var_key))

\* The rules of the file that from_rule turns down.
Invalid ==
    {i \in DOMAIN rules :
        RuleExprFromRule(rules[i], prefix_operand).tag = "Err"}

\* C15: compilation is all or nothing and keeps the order: with one rule
\* that fails to compile the load fails and no compiled rule is kept;
\* otherwise there is exactly one compiled rule per rule of the file, in
\* the order of the file.
C15_AllOrNothing ==
    /\ pc = "load_failed" =>
          (rule_exprs = <<>> /\ (rules = <<>> \/ Invalid # {}))
    /\ Loaded =>
          /\ Invalid = {}
          /\ Len(rule_exprs) = Len(rules)
          /\ \A i \in DOMAIN rules :
                /\ rule_exprs[i].action = rules[i].action
                /\ rule_exprs[i].expr
                      = parse(rules[i].expression, prefix_operand).expr

\* C15 witness: a file of two rules, the first compiles and the second
\* does not: the load failed and kept nothing.
C15_Witness ==
    /\ pc = "load_failed"
    /\ Len(rules) = 2
    /\ Invalid = {2}
    /\ rule_exprs = <<>>


(***************************************************************************)
(* Properties of Parser::exec called on its own.                           *)
(***************************************************************************)
ExecCalled == pc = "called" /\ input.fn = "exec"

\* What an operand of the expression called evaluates to.
OperandValue(expr) == ParserExec(input.precision, expr, input.expr_var)

\* The multiple of 10^-p nearest to n, the even one of two equally near.
Nearest(n, p) ==
    LET q == Pow10(DecDigits - p)
        below == (n \div q) * q
    IN  CHOOSE m \in {below, below + q} :
            \/ 2 * Abs(n - m) < q
            \/ 2 * Abs(n - m) = q /\ (m \div q) % 2 = 0

\* The comparison a kind stands for.
Compare(kind, a, b) ==
    CASE kind = "Equal" -> a = b
      [] kind = "NotEqual" -> a # b
      [] kind = "LessThan" -> a < b
      [] kind = "GreaterThan" -> a > b
      [] kind = "LessThanEqual" -> a <= b
      [] kind = "GreaterThanEqual" -> a >= b

\* "10 / 3 == 3.33" and "10 / 3 == 3.334", parsed as test_precision does.
PrecisionExamples ==
    {parse(<<Num(10, 0), Sym("/"), Num(3, 0), Sym("=="), Num(333, 2)>>,
           "SameLevel").expr,
     parse(<<Num(10, 0), Sym("/"), Num(3, 0), Sym("=="), Num(3334, 3)>>,
           "SameLevel").expr}

\* C16: every comparison of two numbers (==, !=, <, >, <=, >=) compares
\* the two operands each rounded to the configured count of fractional
\* digits, the same way on both sides; at precision 2 both 10/3 == 3.33
\* and 10/3 == 3.334 are true.
C16_RoundsBothSides ==
    /\ (ExecCalled /\ input.expr.kind \in OrderingKinds \cup EqualityKinds) =>
          LET l == OperandValue(input.expr.left)
              r == OperandValue(input.expr.right)
          IN  (l.tag = "Number" /\ r.tag = "Number") =>
                 output = ResBoolean(Compare(input.expr.kind,
                                             Nearest(l.n, input.precision),
                                             Nearest(r.n, input.precision)))
    /\ (ExecCalled /\ input.precision = TestPrecision
           /\ input.expr \in PrecisionExamples) =>
          output = ResBoolean(TRUE)

\* C16 witness: 10/3 == 3.334 was evaluated at precision 2, to true.
C16_Witness ==
    /\ ExecCalled
    /\ input.precision = TestPrecision
    /\ input.expr \in PrecisionExamples
    /\ input.expr.right = Number(from_f64(3334, 3))
    /\ output = ResBoolean(TRUE)

\* The operators as expressions write them.
OperatorSymbol ==
    [Plus |-> "+", Minus |-> "-", Times |-> "*", Divide |-> "/",
     And |-> "&&", Or |-> "||", Not |-> "!",
     LessThan |-> "<", GreaterThan |-> ">", LessThanEqual |-> "<=",
     GreaterThanEqual |-> ">=", Equal |-> "==", NotEqual |-> "!="]

\* The error value for an operand of the wrong type.
TypeError(kind) ==
    [tag |-> "Err", msg |-> "invalid operand type: " \o OperatorSymbol[kind]]

\* C17: Parser::exec returns an error naming the operator, and no result,
\* when an operator meets an operand of the wrong type: an arithmetic
\* operator or an ordering comparison with a Boolean operand, a logical
\* operator with a Number operand, == or != with one Number and one
\* Boolean; == and != on two Booleans compare them directly.
C17_TypeErrors ==
    ExecCalled =>
        IF input.expr.kind = "Not"
        THEN OperandValue(input.expr.expr).tag = "Number" =>
                output = TypeError("Not")
        ELSE LET kind == input.expr.kind
                 l == OperandValue(input.expr.left)
                 r == OperandValue(input.expr.right)
             IN  (~IsFailure(l) /\ ~IsFailure(r)) =>
                   /\ (kind \in ArithmeticKinds \cup OrderingKinds
                         /\ "Boolean" \in {l.tag, r.tag}) =>
                         output = TypeError(kind)
                   /\ (kind \in LogicalKinds /\ "Number" \in {l.tag, r.tag}) =>
                         output = TypeError(kind)
                   /\ (kind \in EqualityKinds /\ l.tag # r.tag) =>
                         output = TypeError(kind)
                   /\ (kind \in EqualityKinds /\ l.tag = "Boolean"
                         /\ r.tag = "Boolean") =>
                         output = ResBoolean(IF kind = "Equal" THEN l.b = r.b
                                             ELSE l.b # r.b)

\* C17 witness: a number was compared with == to a Boolean, and exec
\* returned the error naming ==.
C17_Witness ==
    /\ ExecCalled
    /\ input.expr = Binary("Equal", Number(Dec(0)), Boolean(TRUE))
    /\ output = TypeError("Equal")


(***************************************************************************)
(* Properties of the grammar: parse called on chains of && and ||.         *)
(***************************************************************************)
ParseCalled == pc = "called" /\ input.fn = "parse"

\* "a&&b||c&&!d"
ExampleText ==
    <<Word("a"), Sym("&&"), Word("b"), Sym("||"), Word("c"), Sym("&&"),
      Sym("!"), Word("d")>>

\* "a||b&&c"
OrThenAndText == <<Word("a"), Sym("||"), Word("b"), Sym("&&"), Word("c")>>

Parsed(expr) == [tag |-> "Expr", expr |-> expr]

\* C18: in the logical grammar && binds tighter than ||: "a&&b||c&&!d"
\* parses to Or(And(a, b), And(c, Not(d))).
C18_AndTighterThanOr ==
    (ParseCalled /\ input.text = ExampleText) =>
        output = Parsed(Binary("Or",
                               Binary("And", BooleanVariable("a"),
                                      BooleanVariable("b")),
                               Binary("And", BooleanVariable("c"),
                                      Not(BooleanVariable("d")))))

\* C18, amended: in the logical grammar && does not bind tighter than ||,
\* the two stand on one level: "a&&b||c&&!d" parses to
\* And(Or(And(a, b), c), Not(d)), and "a||b&&c" to And(Or(a, b), c).
C18_AndOrOneLevel ==
    /\ (ParseCalled /\ input.text = ExampleText) =>
          output = Parsed(Binary("And",
                                 Binary("Or",
                                        Binary("And", BooleanVariable("a"),
                                               BooleanVariable("b")),
                                        BooleanVariable("c")),
                                 Not(BooleanVariable("d"))))
    /\ (ParseCalled /\ input.text = OrThenAndText) =>
          output = Parsed(Binary("And",
                                 Binary("Or", BooleanVariable("a"),
                                        BooleanVariable("b")),
                                 BooleanVariable("c")))

\* C18 witness: "a&&b||c&&!d" was parsed, to an And at the top.
C18_Witness ==
    /\ ParseCalled
    /\ input.text = ExampleText
    /\ output.tag = "Expr"
    /\ output.expr.kind = "And"

\* The operand of a chain that starts at pos, and where it ends.
OperandAt(toks, pos) ==
    IF IsSym(toks, pos, "!")
    THEN [expr |-> Not(BooleanVariable(toks[pos + 1].v)), next |-> pos + 2]
    ELSE [expr |-> BooleanVariable(toks[pos].v), next |-> pos + 1]

\* The chain read strictly from the left: each operator takes all that
\* stands before it as its left side and the next operand as its right.
RECURSIVE FoldFrom(_, _, _)
FoldFrom(toks, pos, left) ==
    IF pos > Len(toks) THEN left
    ELSE FoldFrom(toks, OperandAt(toks, pos + 1).next,
                  Binary(IF toks[pos].v = "&&" THEN "And" ELSE "Or",
                         left, OperandAt(toks, pos + 1).expr))

LeftToRight(toks) ==
    FoldFrom(toks, OperandAt(toks, 1).next, OperandAt(toks, 1).expr)

\* No operand but the last stands under "!".
NegationLastOnly(toks) ==
    \A i \in DOMAIN toks : IsSym(toks, i, "!") => i = Len(toks) - 1

Nav == observed.nav

\* C21: move_row terminates within its budget.  Whatever the readings of
\* the indicator, a call of move_row makes at most 30 single-unit scrolls:
\* while it runs it has made fewer than 30, it returns success after 1 to
\* 30 of them, and it returns the navigation error after exactly 30.
C21_MoveRowBounded ==
    Nav.fn = "move_row" =>
        /\ Nav.units <= MoveRowBudget
        /\ Nav.units = Nav.reads
        /\ pc = "move_row" => frame.attempt < MoveRowBudget
        /\ Nav.outcome = "Running" => frame.attempt = Nav.units
        /\ Nav.outcome = "Ok" => Nav.units \in 1..MoveRowBudget
        /\ Nav.outcome = "RetryBudget" =>
              /\ Nav.units = MoveRowBudget
              /\ pc = "ended"
              /\ output.tag = "Err"

\* move_row has used up its budget: thirty scrolls, the error returned.
C21_Witness ==
    /\ Nav.fn = "move_row"
    /\ Nav.outcome = "RetryBudget"
    /\ Nav.units = MoveRowBudget
    /\ output.tag = "Err"

\* C22: move_row reports success only after a reading of this call above
\* the threshold and, strictly later, a reading at or below it; readings
\* that never left the baseline never make it succeed.
C22_ShiftThenSettle ==
    (Nav.fn = "move_row" /\ Nav.outcome = "Ok") =>
        /\ Nav.shifted_before
        /\ Nav.last <= DistanceThreshold
        /\ Nav.reads >= 2

\* move_row has returned success.
C22_Witness ==
    /\ Nav.fn = "move_row"
    /\ Nav.outcome = "Ok"
    /\ Nav.shifted_before
    /\ Nav.last = DistanceThreshold

\* C24: the fine adjustment after a bulk move is bounded.  A call of
\* adjust_row_position makes at most 10 single-unit nudges, returns
\* success only on a reading at or below the threshold, and returns the
\* navigation error after exactly 10 nudges.
C24_AdjustBounded ==
    Nav.fn = "adjust_row_position" =>
        /\ Nav.units <= AdjustBudget
        /\ pc = "adjust" => (frame.attempt < AdjustBudget
                             /\ frame.attempt = Nav.units)
        /\ Nav.outcome = "Ok" =>
              /\ Nav.reads >= 1
              /\ Nav.last <= DistanceThreshold
              /\ Nav.units = Nav.reads - 1
        /\ Nav.outcome = "RetryBudget" =>
              /\ Nav.units = AdjustBudget
              /\ Nav.last > DistanceThreshold
              /\ pc = "ended"
              /\ output.tag = "Err"

\* adjust_row_position has nudged the list and then found the indicator
\* at its baseline.
C24_Witness ==
    /\ Nav.fn = "adjust_row_position"
    /\ Nav.outcome = "Ok"
    /\ Nav.units > 0
    /\ Nav.last = DistanceThreshold

C25_CancelGraceful ==
    observed.event = "cancel" =>
        /\ pc = "ended"
        /\ output.tag = "Ok"
        /\ output.summary = Summary(scanner.actuator_results)
\* C26: a recognition failure does not abort the run.  When identify
\* returns an error for a cell, the cell is not handed to exec, no click is
\* made and no outcome is recorded for it, nothing is returned, and the
\* scan is at the next cell or at the end of the page.
C26_FailureSkipped ==
    /\ Pushed(scanner.actuator_results) <= observed.handed
    /\ observed.handed <= observed.cells
    /\ observed.event \in IdentifyErrors =>
          /\ pc \in {"cell", "page_end"}
          /\ output = NoOutput
          /\ artifact = NoArtifact
          /\ result = "None"
          /\ clicks = <<>>
          /\ observed.handed < observed.cells

\* identify has failed on the first cell of a page and the scan stands at
\* the next one.
C26_Witness ==
    /\ observed.event = "identify"
    /\ pc = "cell"
    /\ frame.row = PageRows - 1
    /\ observed.cells = 1
    /\ observed.handed = 0
\* The card in the cell has an attribute identify does not recognise and
\* strict mode is on.
StrictAnomaly == args.strict_mode /\ observed.event \in NotRecognised

\* C27 as stated: in strict mode a recognition anomaly aborts the scan with
\* an error and no later cell is visited.
C27_StrictAborts ==
    StrictAnomaly =>
        /\ pc = "ended"
        /\ output.tag = "Err"

\* C27, amended: in strict mode a recognition anomaly makes identify
\* return an error, and the cell is skipped like any other recognition
\* failure: it is not handed to exec, nothing is returned and the scan is
\* at the next cell or at the end of the page.  Only without strict mode
\* is a card with an attribute not recognised handed to exec.
C27_StrictSkips ==
    /\ observed.event \in NotRecognised => args.strict_mode
    /\ observed.event = "handed_not_recognised" => ~args.strict_mode
    /\ StrictAnomaly =>
          /\ pc \in {"cell", "page_end"}
          /\ output = NoOutput
          /\ artifact = NoArtifact
          /\ observed.handed < observed.cells

\* In strict mode the first card of a page had an attribute not recognised
\* and the scan stands at the next cell.
C27_Witness ==
    /\ StrictAnomaly
    /\ pc = "cell"
    /\ frame.row = PageRows - 1
    /\ observed.cells = 1
\* Scanner::scan has returned and the scanner takes no further step: no
\* cell is clicked or recognised any more.
ScanOver == pc = "ended" /\ ~ENABLED NextScan

\* C28: an error raised while exec evaluates a rule aborts the scan in
\* progress: Scanner::scan returns an error, without the summary, and no
\* later cell is visited.
C28_EvalErrorAborts ==
    observed.event = "eval_error" =>
        /\ ScanOver
        /\ output.tag = "Err"
        /\ output.error = AnyhowFromGiaa(GiaaFromAnyhow(anyhow("exec")))
        /\ output.summary = NoSummary

\* exec has failed on a rule while cells of the list were still to be
\* visited, and the scan has ended.
C28_Witness ==
    /\ observed.event = "eval_error"
    /\ pc = "ended"
    /\ output.tag = "Err"
    /\ observed.cells = 1
    /\ list.rows > 1
\* C29: a navigation retry-budget failure is fatal.  When move_row has
\* used up its 30 attempts or adjust_row_position its 10 nudges,
\* Scanner::scan returns an error, without the summary, and no further cell
\* is clicked or recognised.
C29_RetryBudgetFatal ==
    Nav.outcome = "RetryBudget" =>
        /\ Nav.fn \in {"move_row", "adjust_row_position"}
        /\ Nav.units = IF Nav.fn = "move_row" THEN MoveRowBudget
                        ELSE AdjustBudget
        /\ ScanOver
        /\ output.tag = "Err"
        /\ output.error.msg = Nav.fn
        /\ output.summary = NoSummary

\* adjust_row_position has used up its nudges after a bulk move and the
\* scan has ended with its error, the last page not visited.
C29_Witness ==
    /\ Nav.fn = "adjust_row_position"
    /\ Nav.outcome = "RetryBudget"
    /\ pc = "ended"
    /\ output.tag = "Err"
    /\ scanner.row_index + PageRows = list.rows
    /\ observed.cells = 2 * PageRows * PageCols
\* C30 as stated: a cell that shows no card aborts the scan as a fatal
\* failure, and Scanner::scan ends with an error.
C30_NoCardFatal ==
    observed.event = "no_card" =>
        /\ pc = "ended"
        /\ output.tag = "Err"

\* C30, amended: a cell that shows no card ends the scan, no later cell
\* is visited, and Scanner::scan returns success and prints the summary
\* of the outcomes recorded so far: the page is taken as the partly
\* filled last page of the list.
C30_NoCardEndsScan ==
    observed.event = "no_card" =>
        /\ ScanOver
        /\ output.tag = "Ok"
        /\ output.summary = Summary(scanner.actuator_results)
        /\ Pushed(scanner.actuator_results) <= observed.handed
        /\ observed.handed < observed.cells

\* The second cell of the first page shows no card; the card before it
\* was handled and is in the summary.
C30_Witness ==
    /\ observed.event = "no_card"
    /\ pc = "ended"
    /\ output.tag = "Ok"
    /\ observed.cells = 2
    /\ Pushed(scanner.actuator_results) = 1
    /\ output.summary = Summary(scanner.actuator_results)
\* C31: every card handed to Actuator::exec satisfies marked => locked.
\* A card read as marked but not locked makes identify return an error,
\* the cell is skipped, and so exec always starts from a legal state.
C31_HandedLegal ==
    /\ InExec =>
          /\ State(before_artifact) # FT
          /\ trail[1] = State(before_artifact)
    /\ observed.event = "marked but not locked" =>
          /\ ~InExec
          /\ artifact = NoArtifact
          /\ observed.handed < observed.cells

\* A card was handed to exec, and the next one, read as marked but not
\* locked, was skipped.
C31_Witness ==
    /\ observed.event = "marked but not locked"
    /\ pc = "page_end"
    /\ observed.cells = 2
    /\ observed.handed = 1
    /\ Pushed(scanner.actuator_results) = 1
\* get_var_keys and filter were called and have returned.
KeysCalled == pc = "called" /\ input.fn = "get_var_keys"

FilterCalled == pc = "called" /\ input.fn = "filter"

\* C32: filter enables the finer attribute with the coarse ones that
\* depend on it: if set_name or sub_stats_count is enabled in its result,
\* sub_stats is enabled too, whether or not a rule reads a sub-stat.
C32_FilterForcesSubStats ==
    FilterCalled =>
        /\ (output.set_name \/ output.sub_stats_count) => output.sub_stats
        /\ output.set_name <=>
              \E i \in DOMAIN input.rule_exprs :
                 \E key \in ARTIFACT_INFO.set_names :
                    key \in input.rule_exprs[i].expr_var_key.boolean_keys
        /\ output.sub_stats_count <=>
              \E i \in DOMAIN input.rule_exprs :
                 ARTIFACT_INFO.words.sub_stats_count
                     \in input.rule_exprs[i].expr_var_key.number_keys

\* The only rule reads a set name, under two negations: set_name and
\* sub_stats are enabled though no rule reads a sub-stat.
C32_Witness ==
    /\ FilterCalled
    /\ Len(input.rule_exprs) = 1
    /\ input.rule_exprs[1].expr.kind = "Not"
    /\ output.set_name
    /\ output.sub_stats
    /\ ~output.sub_stats_count
    /\ ARTIFACT_INFO.stats \cap all_keys(input.rule_exprs) = {}

\* The expressions of which expr is made, itself included.
RECURSIVE Subterms(_)
Subterms(expr) ==
    {expr} \cup
    IF expr.kind \in BinaryKinds
    THEN Subterms(expr.left) \cup Subterms(expr.right)
    ELSE IF expr.kind = "Not" THEN Subterms(expr.expr)
    ELSE {}

LeafNames(expr, kind) ==
    {leaf.name : leaf \in {sub \in Subterms(expr) : sub.kind = kind}}

\* C33: the key extractor returns exactly the variable leaves: the names
\* of the NumberVariable leaves as number keys and of the BooleanVariable
\* leaves as boolean keys, at any depth and under any operator, not
\* included, and no other name.
C33_ExactlyTheLeaves ==
    KeysCalled =>
        /\ output.number_keys = LeafNames(input.expr, "NumberVariable")
        /\ output.boolean_keys = LeafNames(input.expr, "BooleanVariable")

\* The keys of level + crit && !crit: two number keys, and the boolean
\* key found under the negation, of the same name as a number key.
C33_Witness ==
    /\ KeysCalled
    /\ input.expr =
          Binary("And",
                 Binary("Plus", NumberVariable("level"),
                        NumberVariable("crit")),
                 Not(BooleanVariable("crit")))
    /\ output = [boolean_keys |-> {"crit"}, number_keys |-> {"level", "crit"}]
\* The cards of the list, and the rows and the cells visited so far.
Items == (list.rows - 1) * PageCols + list.last

RowsVisited == observed.cells \div PageCols

C39_ContiguousRows ==
    pc = "cell" =>
        /\ frame.row \in (PageRows - frame.page_rows)..(PageRows - 1)
        /\ frame.col \in 0..(PageCols - 1)
        /\ (scanner.row_index + frame.row) * PageCols + frame.col
              = observed.cells

\* After two pages a bulk move of one row: the last row of the screen is
\* the fifth row of the list, about to be visited after four others.
C39_Witness ==
    /\ pc = "cell"
    /\ frame.page_rows = 1
    /\ frame.row = PageRows - 1
    /\ scanner.row_index = 2 * PageRows - 1
    /\ observed.cells = 2 * PageRows * PageCols
    /\ Nav.fn = "adjust_row_position"
\* What the claim C35 says of one step of scan_now_page on a cell, given
\* what the cell met: the button at the poll, the window, the reading.
CellInOrder(cancel, window_ok, reading) ==
    LET has_card == HasCard(frame.row, frame.col)
        res == identify(reading, args.strict_mode)
        reached_check == ~cancel /\ window_ok
        handed == reached_check /\ has_card /\ res.tag = "Artifact"
    IN  /\ cancel =>
              /\ observed'.event = "cancel"
              /\ pc' = "ended"
        /\ observed'.cells =
              IF reached_check THEN observed.cells + 1 ELSE observed.cells
        /\ (reached_check /\ ~has_card) =>
              /\ observed'.event = "no_card"
              /\ pc' = "ended"
        /\ observed'.event \in IdentifyErrors =>
              /\ reached_check
              /\ has_card
              /\ res.tag = "Err"
        /\ handed <=> pc' = "rules"
        /\ handed => artifact' = res.artifact
        /\ observed'.handed =
              IF handed THEN observed.handed + 1 ELSE observed.handed
        /\ ~handed => (artifact' = NoArtifact /\ clicks' = <<>>)

\* C35: on every cell the steps come in the order poll, click, capture,
\* card check, recognition, actuation.  A cell at whose poll the right
\* button is down is not clicked, whatever else the cell holds; identify
\* is not called for a cell whose card check finds no card; and exec is
\* called for a cell exactly when identify returned an artifact for it.
C35_StepOrder ==
    [][pc = "cell" =>
          \A cancel \in BOOLEAN, window_ok \in BOOLEAN,
             reading \in IdentifyReadings :
             VisitCell(cancel, window_ok, reading) =>
                 CellInOrder(cancel, window_ok, reading)]_vars

\* The first cell was handed to exec, and at the poll of the second the
\* right button was down: the scan has ended without visiting it.
C35_Witness ==
    /\ observed.event = "cancel"
    /\ pc = "ended"
    /\ observed.cells = 1
    /\ observed.handed = 1
    /\ Nav.fn = "none"
\* The coupling of the two controls on the screen: a click on the lock
\* toggles held and, when it releases the card, clears flagged; a click on
\* the mark toggles flagged and, when it flags the card, sets held.
ScreenClick(s, control) ==
    IF control = "artifact_lock"
    THEN [locked |-> ~s.locked, marked |-> s.marked /\ ~s.locked]
    ELSE [locked |-> s.locked \/ ~s.marked, marked |-> ~s.marked]

\* The state on the screen after the first k clicks of cs, from s.
RECURSIVE ScreenAfter(_, _, _)
ScreenAfter(s, cs, k) ==
    IF k = 0 THEN s
    ELSE ScreenClick(ScreenAfter(s, cs, k - 1), cs[k].control)

\* C36: the clicks reconcile the screen with the simulation.  For every
\* legal state a card is recognised in and every legal state the rules
\* leave it in, the clicks exec emits, applied to the card on the screen
\* under the coupling of the controls, bring it to the simulated state.
C36_ClicksReconcile ==
    (ExecClicked /\ result # "Err") =>
        ScreenAfter(State(before_artifact), clicks, Len(clicks))
            = State(artifact)

\* A card recognised locked and marked that the rules leave unlocked: one
\* click on the lock, which on the screen also clears the mark.
C36_Witness ==
    /\ ExecClicked
    /\ result = "UnlockAndUnmark"
    /\ State(before_artifact) = TT
    /\ State(artifact) = FF
    /\ Controls = <<"artifact_lock">>
    /\ ScreenAfter(TT, clicks, Len(clicks)) = FF
\* exec has left its loop on a rule whose evaluation failed.
EvalFailed ==
    /\ pc \in {"returned", "aborted"}
    /\ rule_idx <= Len(rule_exprs)
    /\ result \in {"Err", "Panic"}

\* C37: when the evaluation of a rule fails during exec, no click has been
\* emitted for the card, whatever the rules before it did to the simulated
\* state: the card on the screen is as it was recognised.
C37_NoClickOnEvalError ==
    EvalFailed =>
        /\ clicks = <<>>
        /\ ScreenAfter(State(before_artifact), clicks, Len(clicks))
               = State(before_artifact)

\* A rule has hit and changed the simulated state, and the evaluation of
\* a later rule has failed.
C37_Witness ==
    /\ EvalFailed
    /\ result = "Err"
    /\ rule_idx >= 2
    /\ hit_log # <<>>
    /\ State(artifact) # State(before_artifact)
    /\ clicks = <<>>
\* C38: Parser::exec never aborts the process.  For every expression and
\* every set of bindings, a division by a divisor that evaluates to zero
\* included, the call returns a result or an error value.
C38_ExecNeverAborts ==
    ExecCalled => output.tag \in {"Number", "Boolean", "Err"}
\* C40: the subtraction of scan_all_page never underflows.  Whatever
\* total the scrollbar tells of after a full page, it is at least the rows
\* above the page plus the rows of the page.
C40_NoUnderflow ==
    output.tag = "Rows" => output.row_count >= output.row_index + PageRows
====
